---- MODULE Spec2Model ----
(***************************************************************************)
(* Model of the admission bot's conversation flow (src/index.js, the       *)
(* express + Bolt variant, lines 218-516): the in-memory dmState map, the   *)
(* member_joined_channel handler and the direct-message handler.  Every     *)
(* handler invocation is an async function: it runs synchronously up to its *)
(* first await and is resumed when the awaited Slack Web API call returns   *)
(* or throws, so invocations interleave at their awaits.  The modal variant *)
(* of the bot (src/app.js, lines 296-555) is modelled next to it: its view  *)
(* submission handler and withRetry.                                        *)
(***************************************************************************)
EXTENDS Integers, Sequences, FiniteSets, TLC

VARIABLES dmState, handlers, env, view, http, oauth

vars == <<dmState, handlers, env, view, http, oauth>>

(* ------------------------------ bounds --------------------------------- *)

\* longest message text a user types
MaxLen == 2

(* ------------------------------ values --------------------------------- *)

Users == {"U1", "U2"}

\* event.user / message.user may be absent
NoUser == "undefined"

\* the handler invocations that can be in flight at the same time
Handlers == {"h1", "h2"}

\* the characters users type: whitespace, two letters, the two batch digits
Chars == {" ", "h", "i", "2", "3"}

\* what users answer to the name prompt: nothing, whitespace, a name, a name
\* inside whitespace, a name of two words, a number
NameTexts == {<<>>, <<" ">>, <<" ", " ">>, <<"h">>, <<" ", "h", " ">>, <<"h", " ", "i">>, <<"2">>}

\* [0-9]
IsDigit(c) == c \in {"0", "1", "2", "3", "4", "5", "6", "7", "8", "9"}

RECURSIVE SeqsUpTo(_)
SeqsUpTo(n) ==
    IF n = 0 THEN {<<>>}
    ELSE LET shorter == SeqsUpTo(n - 1)
         IN  shorter \cup {Append(s, c) : s \in {t \in shorter : Len(t) = n - 1}, c \in Chars}

\* every message text of at most MaxLen characters
Texts == SeqsUpTo(MaxLen)

\* the texts of the deliveries that are handled concurrently: empty, a name,
\* a batch number
ConcurrentTexts == {<<>>, <<"h">>, <<"2">>}

\* an environment variable that is not set (falsy in JS)
Unset == ""

AnnounceId == "C_ANNOUNCE"
OtherId == "C_OTHER"
Batch2Id == "C_BATCH2"
Batch3Id == "C_BATCH3"

\* process.env as destructured by the program
Envs == [ANNOUNCE_CHANNEL_ID : {AnnounceId, Unset},
         BATCH2_CHANNEL_ID : {Batch2Id, Unset},
         BATCH3_CHANNEL_ID : {Batch3Id, Unset}]

\* the IM channel conversations.open returns for a user
ImOf(u) == "D_" \o u

\* dmState.get(userId) === undefined
NoState == [step |-> "none", name |-> <<>>]

\* { step: 'askName' }
AskName == [step |-> "askName", name |-> <<>>]

\* { step: 'askBatch', name }
AskBatch(name) == [step |-> "askBatch", name |-> name]

(* ------------------------- text helpers -------------------------------- *)

\* String.prototype.trim
RECURSIVE TrimLeft(_)
TrimLeft(s) == IF s # <<>> /\ Head(s) = " " THEN TrimLeft(Tail(s)) ELSE s

RECURSIVE TrimRight(_)
TrimRight(s) ==
    IF s # <<>> /\ s[Len(s)] = " " THEN TrimRight(SubSeq(s, 1, Len(s) - 1)) ELSE s

\* a trim that leaves the whitespace in place
TrimNothing(s) == s

\* String.prototype.trim
Trim(s) == TrimRight(TrimLeft(s))

\* a normalisation that keeps the non-digit characters
NormalizeNothing(s) == s

\* text.replace(/[^0-9]/g, '')
Normalize(s) == SelectSeq(s, IsDigit)

\* a resolution that reads only the first digit of the answer
TargetChannelIdFirstDigit(text, e) ==
    LET normalized == Normalize(Trim(text))
    IN  IF normalized # <<>> /\ normalized[1] = "2" THEN e.BATCH2_CHANNEL_ID
        ELSE IF normalized # <<>> /\ normalized[1] = "3" THEN e.BATCH3_CHANNEL_ID
        ELSE Unset

\* a resolution that falls back to the other batch's channel when the chosen
\* batch has no channel configured
TargetChannelIdOtherBatch(text, e) ==
    LET normalized == Normalize(Trim(text))
    IN  IF normalized = <<"2">>
        THEN IF e.BATCH2_CHANNEL_ID # Unset THEN e.BATCH2_CHANNEL_ID ELSE e.BATCH3_CHANNEL_ID
        ELSE IF normalized = <<"3">>
        THEN IF e.BATCH3_CHANNEL_ID # Unset THEN e.BATCH3_CHANNEL_ID ELSE e.BATCH2_CHANNEL_ID
        ELSE Unset

\* targetChannelId of the askBatch branch; Unset stands for null
TargetChannelId(text, e) ==
    LET normalized == Normalize(Trim(text))
    IN  IF normalized = <<"2">> THEN e.BATCH2_CHANNEL_ID
        ELSE IF normalized = <<"3">> THEN e.BATCH3_CHANNEL_ID
        ELSE Unset

\* String.prototype.toLowerCase, on the characters users type
ToLower(s) ==
    [i \in 1 .. Len(s) |-> CASE s[i] = "H" -> "h" [] s[i] = "I" -> "i" [] OTHER -> s[i]]

\* String.prototype.includes
Includes(s, w) ==
    \E i \in 0 .. (Len(s) - Len(w)) : SubSeq(s, i + 1, i + Len(w)) = w

\* the greeting words of the events endpoint that starts a flow on a greeting
Greetings ==
    {<<"h", "e", "y">>, <<"h", "e", "l", "l", "o">>, <<"h", "i">>, <<"h", "o", "l", "a">>,
     <<"n", "a", "m", "a", "s", "t", "e">>, <<"h", "e", "l", "p">>,
     <<"s", "t", "a", "r", "t">>}

\* isGreeting of that endpoint, for the trimmed text
IsGreeting(text) == \E g \in Greetings : Includes(ToLower(text), g)

(* --------------------------- message texts ----------------------------- *)

\* a message text: a fixed template and the value interpolated into it
Msg(tmpl, arg) == [tmpl |-> tmpl, arg |-> arg]

WelcomeText == Msg("Welcome! What is your full name?", <<>>)
AskNameAgainText == Msg("Please share your full name.", <<>>)
AskBatchText(name) == Msg("Thanks, {name}. Which batch are you in? 2 or 3?", name)
AskBatchAgainText == Msg("Please reply with 2 or 3.", <<>>)
InvitedText(ch) == Msg("You have been invited to <#{targetChannelId}>. Welcome!", <<ch>>)
FallbackText == Msg("I could not add you automatically. A moderator will help you shortly.", <<>>)
\* the name prompt the greeting trigger sends
HelloText == Msg("Hello! How may I help you? What is your full name?", <<>>)

NoText == Msg("", <<>>)

(* ------------------------- outbound API calls -------------------------- *)

\* results of client.conversations.open: a channel, a response without
\* channel.id (dm() throws 'Failed to open IM'), or an API error
OpenResults == {"ok", "no_channel", "user_not_found"}

\* results of client.chat.postMessage
PostResults == {"ok", "channel_not_found"}

\* error codes of client.conversations.invite
InviteErrors == {"already_in_channel", "not_in_channel"}

InviteResults == {"ok"} \cup InviteErrors

\* a Web API call that completed, with its arguments and its result
Call(api, channel, users, text, result) ==
    [api |-> api, channel |-> channel, users |-> users, text |-> text, result |-> result]

(* ------------------------------ events --------------------------------- *)

\* the event object a listener receives
Event(type, channel, channel_type, subtype, user, text) ==
    [type |-> type, channel |-> channel, channel_type |-> channel_type,
     subtype |-> subtype, bot_id |-> "none", user |-> user, text |-> text]

JoinEvent(channel, user) ==
    Event("member_joined_channel", channel, "channel", "none", user, <<>>)

MessageEvent(channel_type, subtype, user, text) ==
    Event("message", IF channel_type = "im" THEN ImOf(user) ELSE OtherId,
          channel_type, subtype, user, text)

\* a direct message posted by another app: it carries the bot_id of the app
\* and the id of its bot user, and no subtype
BotMessageEvent(user, text) ==
    [MessageEvent("im", "none", user, text) EXCEPT !.bot_id = "B_OTHER"]

NoEvent == Event("none", Unset, "none", "none", NoUser, <<>>)

\* member_joined_channel events of the users in U
JoinEvents(U) == {JoinEvent(c, u) : c \in {AnnounceId, OtherId}, u \in U \cup {NoUser}}

\* message events of the users in U: direct messages of humans with every
\* text in T, and one event for each filter of the handler
MessageEvents(U, T) ==
    {MessageEvent("im", "none", u, x) : u \in U, x \in T}
      \cup {MessageEvent("channel", "none", u, <<"2">>) : u \in U}
      \cup {MessageEvent("im", "bot_message", u, <<"2">>) : u \in U}
      \cup {MessageEvent("im", "none", NoUser, <<"2">>)}

\* direct messages that apps post as the users in U
BotMessages(U) == {BotMessageEvent(u, x) : u \in U, x \in {<<"h">>, <<"2">>}}

(* --------------------------- handler state ----------------------------- *)

\* a fresh invocation of a listener for an event: no call made yet
Invocation(event) ==
    [event |-> event, targetChannelId |-> Unset, line |-> 0,
     await |-> "running", out |-> <<>>]

\* a handler slot in which no listener ran yet
Idle == [Invocation(NoEvent) EXCEPT !.await = "idle"]

\* the text sent when the batch has no channel configured
ConfigIssueText ==
    Msg("Sorry, there was an issue with channel configuration. Please contact an admin for assistance.", <<>>)

\* results.push(...) for one invite of the loop: added, already in the
\* channel, or failed
ResultLine(c) ==
    [kind |-> IF c.result = "ok" THEN "Added to"
              ELSE IF c.result = "already_in_channel" THEN "Already in"
              ELSE "Failed to add to",
     channel |-> c.channel]

\* results after the invites invocation t has made
Results(t) ==
    LET invites == SelectSeq(t.out, LAMBDA c : c.api = "conversations.invite")
    IN  [i \in 1 .. Len(invites) |-> ResultLine(invites[i])]

\* the summary of the multi-channel variant
SummaryText(t) ==
    Msg("*Channel Updates:*\n{results}\n\nWelcome to the community!", Results(t))

\* the text of the help menu of the DM concierge
HelpMenuText == Msg("How can I help you?", <<>>)

\* the text of the dm() call at each source line of handler invocation t
DmText(t) ==
    CASE t.line = 402 -> WelcomeText
      [] t.line = 439 -> AskNameAgainText
      [] t.line = 443 -> AskBatchText(Trim(t.event.text))
      [] t.line = 466 -> AskBatchAgainText
      [] t.line = 476 -> InvitedText(t.targetChannelId)
      [] t.line = 483 -> FallbackText
      [] t.line = 641 -> HelloText
      [] t.line = 175 -> HelpMenuText
      [] t.line = 703 -> ConfigIssueText
      [] t.line = 735 -> SummaryText(t)
      [] OTHER -> NoText

\* a slot is free when its previous invocation has returned
Free(h) == handlers[h].await \in {"idle", "returned"}

\* the handler returns, or its outer catch logs the error and returns
Return(t) == [t EXCEPT !.await = "returned"]

\* dm(): the handler suspends in conversations.open of the dm() call at `line`
Dm(t, line) == [t EXCEPT !.line = line, !.await = "conversations.open"]

\* the handler suspends in client.conversations.invite
Invite(t) == [t EXCEPT !.line = 475, !.await = "conversations.invite"]

\* a store that keeps one record for all users
SetShared(u, value) == [v \in Users |-> value]

\* dmState.set(userId, value)
Set(u, value) == [dmState EXCEPT ![u] = value]

\* dmState.delete(userId)
Delete(u) == [dmState EXCEPT ![u] = NoState]

\* an askBatch branch without its finally block
FinallyKeep(u) == dmState

\* the finally block of the askBatch branch
Finally(u) == Delete(u)

\* the view submission handler of the modal variant before any submission
NoSubmission ==
    [user |-> NoUser, selected |-> "none", targetChannel |-> Unset, line |-> 0,
     attempt |-> 0, code |-> "none", await |-> "idle", out |-> <<>>]

\* the body of a POST as it is on the wire: nothing, text that is no JSON, the
\* JSON value null, or a JSON object with its type, challenge and event
RawBody(kind, type, challenge, event) ==
    [kind |-> kind, type |-> type, challenge |-> challenge, event |-> event]

EmptyBody == RawBody("empty", "undefined", "undefined", NoEvent)
NotJson == RawBody("garbage", "undefined", "undefined", NoEvent)
JsonNull == RawBody("null", "undefined", "undefined", NoEvent)

\* a POST request to /slack/events
Request(contentType, raw) == [contentType |-> contentType, raw |-> raw]

NoRequest == Request("none", EmptyBody)

\* res.status(status).json(...) / res.status(status).send('')
Response(status, kind, value) == [status |-> status, kind |-> kind, value |-> value]

NoResponse == Response(0, "none", "")

\* the events endpoint before any request: bodyParser is the major version
\* of the body parser the deployed express brings, count the requests the
\* rate limiter counted in the current window
NoTraffic ==
    [bodyParser |-> 1, request |-> NoRequest, response |-> NoResponse,
     phase |-> "idle", count |-> 0, writes |-> 0]

\* the OAuth routes before any request: oauthStates is empty; configured
\* says that SLACK_CLIENT_ID and SLACK_REDIRECT_URL are set
NoInstall ==
    [states |-> {}, configured |-> TRUE, await |-> "idle", presented |-> "",
     status |-> 0, exchanges |-> 0]

Init ==
    /\ dmState = [u \in Users |-> NoState]
    /\ handlers = [h \in Handlers |-> Idle]
    /\ env \in Envs
    /\ view = NoSubmission
    /\ http = NoTraffic
    /\ oauth = NoInstall

(* ----------------- app.event('member_joined_channel') ------------------ *)

\* a join handler that greets the members of every channel
JoinStartAnyChannel(event, e) ==
    LET t == Invocation(event)
    IN  IF e.ANNOUNCE_CHANNEL_ID = Unset THEN Return(t)
        ELSE IF event.user = NoUser THEN Return(t)
        ELSE Dm(t, 402)

\* the join handler up to its first await
JoinStart(event, e) ==
    LET t == Invocation(event)
    IN  IF e.ANNOUNCE_CHANNEL_ID = Unset THEN Return(t)
        ELSE IF event.channel # e.ANNOUNCE_CHANNEL_ID THEN Return(t)
        ELSE IF event.user = NoUser THEN Return(t)
        ELSE Dm(t, 402)

MemberJoined(h, event) ==
    /\ Free(h)
    /\ handlers' = [handlers EXCEPT ![h] = JoinStart(event, env)]
    /\ UNCHANGED <<dmState, env, view, http, oauth>>

(* ----------------------------- app.message ----------------------------- *)

\* filters that let messages of every channel type through
FilteredAnyChannel(event) ==
    event.subtype # "none" \/ event.user = NoUser

\* the filters of the message handler: only IMs of humans
Filtered(event) ==
    event.channel_type # "im" \/ event.subtype # "none" \/ event.user = NoUser

\* a message handler that starts the flow for every user without record
MessageStartGreetsAll(event, state, e) ==
    LET t == Invocation(event)
        text == Trim(event.text)
        target == TargetChannelId(event.text, e)
    IN  IF state.step = "none" THEN Dm(t, 402)
        ELSE IF state.step = "askName"
        THEN IF text = <<>> THEN Dm(t, 439) ELSE Dm(t, 443)
        ELSE IF target = Unset THEN Dm(t, 466)
        ELSE Invite([t EXCEPT !.targetChannelId = target])

\* the message handler up to its first await; state is dmState.get(userId)
MessageStart(event, state, e) ==
    LET t == Invocation(event)
        text == Trim(event.text)
        target == TargetChannelId(event.text, e)
    IN  IF state.step = "none" THEN Return(t)
        ELSE IF state.step = "askName"
        THEN IF text = <<>> THEN Dm(t, 439) ELSE Dm(t, 443)
        ELSE IF target = Unset THEN Dm(t, 466)
        ELSE Invite([t EXCEPT !.targetChannelId = target])

\* a message handler that opens a record for a user who has none
MessageRecordAutoCreate(event, state) ==
    IF state.step = "none" THEN AskName
    ELSE IF state.step = "askName" /\ Trim(event.text) # <<>>
    THEN AskBatch(Trim(event.text)) ELSE state

\* a message handler that stores the answer as it was typed
MessageRecordRaw(event, state) ==
    IF state.step = "askName" /\ Trim(event.text) # <<>>
    THEN AskBatch(event.text) ELSE state

\* a message handler that takes an empty answer as the name
MessageRecordAnyName(event, state) ==
    IF state.step = "askName" THEN AskBatch(Trim(event.text)) ELSE state

\* the record the message handler leaves in the store before its first await
MessageRecord(event, state) ==
    LET text == Trim(event.text)
    IN  IF state.step = "askName" /\ text # <<>> THEN AskBatch(text) ELSE state

Message(h, event) ==
    /\ Free(h)
    /\ IF Filtered(event)
       THEN /\ handlers' = [handlers EXCEPT ![h] = Return(Invocation(event))]
            /\ UNCHANGED dmState
       ELSE /\ handlers' = [handlers EXCEPT ![h] =
                  MessageStart(event, dmState[event.user], env)]
            /\ dmState' = Set(event.user, MessageRecord(event, dmState[event.user]))
    /\ UNCHANGED <<env, view, http, oauth>>

(* ------------------------ the awaited API calls ------------------------ *)

\* the handler after its dm() call threw: the catch of the invite block
\* sends the fallback, every other throw ends in the outer catch
DmThrew(t) ==
    IF t.line = 476 THEN Dm(t, 483) ELSE Return(t)

\* a prompt whose record is written although the prompt could not be sent
DmThrewStateSetsRecord(t) ==
    IF t.line = 483 THEN Finally(t.event.user)
    ELSE IF t.line \in {402, 641} THEN Set(t.event.user, AskName)
    ELSE dmState

\* the record store after the dm() call of handler t threw
DmThrewState(t) ==
    IF t.line = 483 THEN Finally(t.event.user) ELSE dmState

\* a join handler that sends the name prompt and keeps no record of it
DmResolvedStateNoRecord(t) ==
    IF t.line \in {476, 483} THEN Finally(t.event.user) ELSE dmState

\* the record store after the dm() call of handler t resolved
DmResolvedState(t) ==
    IF t.line \in {402, 641} THEN Set(t.event.user, AskName)
    ELSE IF t.line \in {476, 483} THEN Finally(t.event.user)
    ELSE dmState

\* client.conversations.open returning only when no other invocation awaits a
\* call: the calls of all users through one serial queue
OpenReturnsInOrder(h, res) ==
    LET t == handlers[h]
        opened == [t EXCEPT !.out = Append(t.out,
                      Call("conversations.open", Unset, t.event.user, NoText, res))]
    IN  /\ t.await = "conversations.open"
        /\ \A g \in Handlers \ {h} : handlers[g].await \in {"idle", "returned"}
        /\ IF res = "ok"
           THEN /\ handlers' = [handlers EXCEPT ![h] =
                      [opened EXCEPT !.await = "chat.postMessage"]]
                /\ UNCHANGED dmState
           ELSE /\ handlers' = [handlers EXCEPT ![h] = DmThrew(opened)]
                /\ dmState' = DmThrewState(t)
        /\ UNCHANGED <<env, view, http, oauth>>

\* client.conversations.open of dm() returns or throws
OpenReturns(h, res) ==
    LET t == handlers[h]
        opened == [t EXCEPT !.out = Append(t.out,
                      Call("conversations.open", Unset, t.event.user, NoText, res))]
    IN  /\ t.await = "conversations.open"
        /\ IF res = "ok"
           THEN /\ handlers' = [handlers EXCEPT ![h] =
                      [opened EXCEPT !.await = "chat.postMessage"]]
                /\ UNCHANGED dmState
           ELSE /\ handlers' = [handlers EXCEPT ![h] = DmThrew(opened)]
                /\ dmState' = DmThrewState(t)
        /\ UNCHANGED <<env, view, http, oauth>>

\* client.chat.postMessage of dm() returns or throws
PostReturns(h, res) ==
    LET t == handlers[h]
        posted == [t EXCEPT !.out = Append(t.out,
                      Call("chat.postMessage", ImOf(t.event.user), Unset, DmText(t), res))]
    IN  /\ t.await = "chat.postMessage"
        /\ IF res = "ok"
           THEN /\ handlers' = [handlers EXCEPT ![h] = Return(posted)]
                /\ dmState' = DmResolvedState(t)
           ELSE /\ handlers' = [handlers EXCEPT ![h] = DmThrew(posted)]
                /\ dmState' = DmThrewState(t)
        /\ UNCHANGED <<env, view, http, oauth>>

\* an askBatch branch whose catch block sends nothing
InviteDoneSilent(t, res) ==
    IF res = "ok" THEN Dm(t, 476) ELSE Return(t)

\* the handler after client.conversations.invite returned or threw
InviteDone(t, res) ==
    IF res = "ok" THEN Dm(t, 476) ELSE Dm(t, 483)

InviteReturns(h, res) ==
    LET t == handlers[h]
        invited == [t EXCEPT !.out = Append(t.out,
                      Call("conversations.invite", t.targetChannelId, t.event.user,
                           NoText, res))]
    IN  /\ t.await = "conversations.invite"
        /\ handlers' = [handlers EXCEPT ![h] = InviteDone(invited, res)]
        /\ UNCHANGED <<dmState, env, view, http, oauth>>

\* a step of handler invocation h: an API call it awaits returns or throws
Resume(h, open, post, invite) ==
    \/ \E res \in open : OpenReturns(h, res)
    \/ \E res \in post : PostReturns(h, res)
    \/ \E res \in invite : InviteReturns(h, res)

\* the texts the users in U send in the current state: an answer to the name
\* prompt while the bot waits for a name, any text otherwise
Answers(U, T) ==
    UNION {{MessageEvent("im", "none", u, x) :
               x \in IF dmState[u].step = "askName" THEN NameTexts ELSE T} : u \in U}

\* deliveries one at a time: the next event arrives after the handler of
\* the previous one returned; one user, every text, every configuration
Next ==
    \/ \E event \in JoinEvents({"U1"}) : MemberJoined("h1", event)
    \/ \E event \in MessageEvents({"U1"}, {}) \cup BotMessages({"U1"})
                        \cup Answers({"U1"}, Texts) :
          Message("h1", event)
    \/ Resume("h1", OpenResults, PostResults, InviteResults)

Spec == Init /\ [][Next]_vars

\* concurrent deliveries: two invocations in flight, for the same user or
\* for two users, in a fully configured deployment
ConcurrentInit ==
    /\ Init
    /\ env = [ANNOUNCE_CHANNEL_ID |-> AnnounceId, BATCH2_CHANNEL_ID |-> Batch2Id,
              BATCH3_CHANNEL_ID |-> Batch3Id]

ConcurrentNext ==
    \/ \E h \in Handlers, event \in JoinEvents(Users) : MemberJoined(h, event)
    \/ \E h \in Handlers, event \in MessageEvents(Users, ConcurrentTexts) : Message(h, event)
    \/ \E h \in Handlers :
          Resume(h, {"ok", "no_channel"}, PostResults, {"ok", "not_in_channel"})

ConcurrentSpec == ConcurrentInit /\ [][ConcurrentNext]_vars

\* every invocation in flight eventually gets the result of the call it awaits
FairSpec ==
    Spec /\ WF_vars(Resume("h1", OpenResults, PostResults, InviteResults))

(* ------------------- the modal variant (src/app.js) -------------------- *)

\* retries = 3, the default of withRetry
Retries == 3

Batch4Id == "C_BATCH4"

\* process.env of the modal variant
ModalEnvs == [BATCH2_CHANNEL_ID : {Batch2Id, Unset},
              BATCH3_CHANNEL_ID : {Batch3Id, Unset},
              BATCH4_CHANNEL_ID : {Batch4Id, Unset}]

\* the values a submitted view carries: a radio option, or no selection
Selections == {"batch2", "batch3", "batch4", "none"}

\* error codes of the calls the view handler makes
ModalErrors ==
    {"already_in_channel", "not_in_channel", "missing_scope", "restricted_action"}

\* map[selected]
MapSelected(selected, e) ==
    CASE selected = "batch2" -> e.BATCH2_CHANNEL_ID
      [] selected = "batch3" -> e.BATCH3_CHANNEL_ID
      [] selected = "batch4" -> e.BATCH4_CHANNEL_ID
      [] OTHER -> Unset

\* the success DM
AddedText(selected) ==
    Msg("You've been added to your private {Batch n} channel", <<selected>>)

\* msg of the error DM for the code of the caught error
ErrorText(code) ==
    CASE code = "already_in_channel" -> Msg("You're already in that channel.", <<>>)
      [] code = "not_in_channel" ->
           Msg("Couldn't add you automatically. Please ask an admin to add me to that private channel first.", <<>>)
      [] code = "missing_scope" ->
           Msg("I need additional permissions. Please contact an admin.", <<>>)
      [] OTHER -> Msg("Something went wrong: {code}", <<code>>)

\* a withRetry that tests the attempt count after one more call
WithRetryOneMore(attempt, res) ==
    IF res = "ok" THEN "return"
    ELSE IF attempt = Retries + 1 THEN "throw"
    ELSE "retry"

\* withRetry after a call of fn at this attempt: the value is returned, fn is
\* called again, or the last error is thrown
WithRetry(attempt, res) ==
    IF res = "ok" THEN "return"
    ELSE IF attempt = Retries THEN "throw"
    ELSE "retry"

\* the view handler suspends in the withRetry call at `line`
ViewCall(v, line) == [v EXCEPT !.line = line, !.attempt = 0, !.await = "call"]

\* app.view('batch_form_submit') up to its first await
BatchFormSubmit(user, selected) ==
    LET v == [NoSubmission EXCEPT !.user = user, !.selected = selected,
                                  !.targetChannel = MapSelected(selected, env)]
    IN  /\ view.await \in {"idle", "returned"}
        /\ view' = IF selected = "none" \/ v.targetChannel = Unset
                   THEN [v EXCEPT !.await = "returned"]
                   ELSE ViewCall(v, 497)
        /\ UNCHANGED <<dmState, handlers, env, http, oauth>>

\* the API a withRetry call of the view handler wraps, and its argument
ViewApi(line) ==
    CASE line = 497 -> "conversations.invite"
      [] line \in {502, 518} -> "conversations.open"
      [] OTHER -> "chat.postMessage"

\* the channel and users arguments of the call
ViewChannel(v) ==
    CASE v.line = 497 -> v.targetChannel
      [] v.line \in {506, 534} -> ImOf(v.user)
      [] OTHER -> Unset

ViewUsers(v) == IF v.line \in {506, 534} THEN Unset ELSE v.user

ViewText(v) ==
    CASE v.line = 506 -> AddedText(v.selected)
      [] v.line = 534 -> ErrorText(v.code)
      [] OTHER -> NoText

\* the view handler after the withRetry call at v.line returned
ViewReturned(v) ==
    CASE v.line = 497 -> ViewCall(v, 502)
      [] v.line = 502 -> ViewCall(v, 506)
      [] v.line = 518 -> ViewCall(v, 534)
      [] OTHER -> [v EXCEPT !.await = "returned"]

\* the view handler after the withRetry call at v.line threw err: the catch
\* of the invite block sends the error DM, a throw inside it ends in the
\* outer catch
ViewThrew(v, err) ==
    IF v.line \in {497, 502, 506}
    THEN ViewCall([v EXCEPT !.code = err], 518)
    ELSE [v EXCEPT !.await = "returned"]

\* the wrapped call of the withRetry the view handler awaits returns or
\* throws; withRetry keeps only the last error, so out records the call that
\* returned or whose error withRetry threw
ViewCallReturns(res) ==
    LET v == [view EXCEPT !.out = Append(view.out,
                 Call(ViewApi(view.line), ViewChannel(view), ViewUsers(view), ViewText(view), res))]
        outcome == WithRetry(view.attempt, res)
    IN  /\ view.await = "call"
        /\ view' = CASE outcome = "return" -> ViewReturned(v)
                     [] outcome = "throw" -> ViewThrew(v, res)
                     [] OTHER -> [view EXCEPT !.attempt = view.attempt + 1]
        /\ UNCHANGED <<dmState, handlers, env, http, oauth>>

ModalInit ==
    /\ dmState = [u \in Users |-> NoState]
    /\ handlers = [h \in Handlers |-> Idle]
    /\ env \in ModalEnvs
    /\ view = NoSubmission
    /\ http = NoTraffic
    /\ oauth = NoInstall

ModalNext ==
    \/ \E u \in Users, selected \in Selections : BatchFormSubmit(u, selected)
    \/ \E res \in {"ok"} \cup ModalErrors : ViewCallReturns(res)

ModalSpec == ModalInit /\ [][ModalNext]_vars

(* ------------------ POST /slack/events (src/index.js) ------------------ *)

Challenges == {"abc123", "test_challenge_12345"}

\* an event of a type no listener is registered for
OtherEvent == Event("reaction_added", OtherId, "none", "none", "U1", <<>>)

\* the events Slack delivers about the users in U
DeliveredEvents(U) ==
    JoinEvents(U) \cup MessageEvents(U, {}) \cup Answers(U, ConcurrentTexts)
        \cup {OtherEvent, NoEvent}

\* the requests that reach the endpoint
Requests(U) ==
    {Request(ct, raw) :
        ct \in {"application/json", "text/plain"},
        raw \in {EmptyBody, NotJson, JsonNull}
                  \cup {RawBody("object", "url_verification", c, NoEvent) : c \in Challenges}
                  \cup {RawBody("object", "event_callback", "undefined", e) : e \in DeliveredEvents(U)}
                  \cup {RawBody("object", ty, "undefined", NoEvent) :
                          ty \in {"app_rate_limited", "undefined"}}}

\* req.body after express.raw({ type: 'application/json' }): the Buffer of a
\* JSON request with a body; a request the parser skips keeps {} with body
\* parser 1 and stays undefined with body parser 2
ReqBody(request, bodyParser) ==
    IF request.contentType = "application/json" /\ request.raw.kind # "empty"
    THEN request.raw
    ELSE IF bodyParser = 1 THEN NotJson ELSE EmptyBody

\* JSON.parse(rawBody || '{}') of a body that parses
JsonParse(raw) ==
    IF raw.kind = "empty" THEN RawBody("object", "undefined", "undefined", NoEvent)
    ELSE raw

\* an endpoint that holds back its response to an event delivery until the
\* event has been processed
EventsResponseAfterProcessing(request, bodyParser) ==
    LET rawBody == ReqBody(request, bodyParser)
    IN  IF rawBody.kind = "garbage" THEN Response(400, "json", "error: Invalid JSON")
        ELSE IF rawBody.kind = "object" /\ rawBody.type = "url_verification"
        THEN Response(200, "json", "challenge: " \o rawBody.challenge)
        ELSE IF rawBody.kind = "object" /\ rawBody.type = "event_callback"
        THEN NoResponse
        ELSE Response(200, "text", "")

\* an endpoint that acknowledges the handshake like every other envelope
EventsResponseAckOnly(request, bodyParser) ==
    IF ReqBody(request, bodyParser).kind = "garbage"
    THEN Response(400, "json", "error: Invalid JSON")
    ELSE Response(200, "text", "")

\* the response of the endpoint
EventsResponse(request, bodyParser) ==
    LET rawBody == ReqBody(request, bodyParser)
        body == JsonParse(rawBody)
    IN  IF rawBody.kind = "garbage" THEN Response(400, "json", "error: Invalid JSON")
        ELSE IF body.kind = "null" THEN Response(200, "text", "")
        ELSE IF body.type = "url_verification"
        THEN Response(200, "json", "challenge: " \o body.challenge)
        ELSE Response(200, "text", "")

\* the endpoint goes on to app.processEvent after its response
Dispatches(request, bodyParser) ==
    LET rawBody == ReqBody(request, bodyParser)
    IN  rawBody.kind = "object" /\ rawBody.type = "event_callback"

\* catch (err) of the route handler: if (!res.headersSent) res.status(200).send('')
OuterCatch(writes) == IF writes > 0 THEN writes ELSE writes + 1

\* a route handler whose event_callback branch does not return after
\* app.processEvent and runs on into the response for other envelope types
HandlerWritesFallThrough(request, bodyParser) ==
    LET rawBody == ReqBody(request, bodyParser)
        body == JsonParse(rawBody)
    IN  IF rawBody.kind = "garbage" THEN 1
        ELSE IF body.kind = "null" THEN OuterCatch(0)
        ELSE IF body.type = "url_verification" THEN 1
        ELSE IF body.type = "event_callback" THEN 1 + 1
        ELSE 1

\* the number of responses the route handler writes for the request: one on
\* each returning path; reading body.type of null throws before any write and
\* ends in the outer catch
HandlerWrites(request, bodyParser) ==
    LET rawBody == ReqBody(request, bodyParser)
        body == JsonParse(rawBody)
    IN  IF rawBody.kind = "garbage" THEN 1
        ELSE IF body.kind = "null" THEN OuterCatch(0)
        ELSE IF body.type = "url_verification" THEN 1
        ELSE IF body.type = "event_callback" THEN 1
        ELSE 1

\* the endpoint up to its response
Post(request) ==
    /\ http.phase # "acked"
    /\ \A h \in Handlers : Free(h)
    /\ http' = [http EXCEPT
                  !.request = request,
                  !.response = EventsResponse(request, http.bodyParser),
                  !.writes = HandlerWrites(request, http.bodyParser),
                  !.phase = IF Dispatches(request, http.bodyParser) THEN "acked" ELSE "done"]
    /\ UNCHANGED <<dmState, handlers, env, view, oauth>>

\* a dispatch that finds a listener for every event
ListensToAll(event) == TRUE

\* a listener is registered for the type of the event
Listens(event) == event.type \in {"member_joined_channel", "message"}

\* the listener Bolt runs for the event, up to its first await
Listener(event, state, e) ==
    IF event.type = "member_joined_channel" THEN JoinStart(event, e)
    ELSE IF Filtered(event) THEN Return(Invocation(event))
    ELSE MessageStart(event, state, e)

\* await app.processEvent(mockReq, mockRes): Bolt runs the listener of the
\* event, finds none for its type, or throws into catch (processErr)
ProcessEvent(h, throws) ==
    LET event == http.request.raw.event
        listens == Listens(event)
    IN  /\ http.phase = "acked"
        /\ Free(h)
        /\ http' = [http EXCEPT !.phase = "done"]
        /\ IF throws \/ ~listens
           THEN UNCHANGED <<dmState, handlers>>
           ELSE /\ handlers' = [handlers EXCEPT ![h] =
                      Listener(event, dmState[event.user], env)]
                /\ dmState' = IF event.type = "message" /\ ~Filtered(event)
                              THEN Set(event.user, MessageRecord(event, dmState[event.user]))
                              ELSE dmState
        /\ UNCHANGED <<env, view, oauth>>

\* the body parser of the deployment is 1 or 2
EndpointInit ==
    /\ dmState = [u \in Users |-> NoState]
    /\ handlers = [h \in Handlers |-> Idle]
    /\ env \in Envs
    /\ view = NoSubmission
    /\ http \in {[NoTraffic EXCEPT !.bodyParser = v] : v \in {1, 2}}
    /\ oauth = NoInstall

EndpointNext ==
    \/ \E request \in Requests({"U1"}) : Post(request)
    \/ \E throws \in BOOLEAN : ProcessEvent("h1", throws)
    \/ /\ Resume("h1", {"ok", "no_channel"}, PostResults, {"ok", "not_in_channel"})

EndpointSpec == EndpointInit /\ [][EndpointNext]_vars

(* -------------------- the OAuth routes (src/index.js) ------------------ *)

\* values of Math.random().toString(36).slice(2)
Tokens == {"s1"}

\* GET /slack/install
Install(token) ==
    /\ oauth' = IF ~oauth.configured
                THEN [oauth EXCEPT !.status = 500]
                ELSE [oauth EXCEPT !.states = oauth.states \cup {token}, !.status = 302]
    /\ UNCHANGED <<dmState, handlers, env, view, http>>

\* a redirect handler that leaves the presented state in oauthStates
OauthRedirectKeepsState(state, code) ==
    /\ oauth.await = "idle"
    /\ oauth' = IF state = "" \/ state \notin oauth.states
                THEN [oauth EXCEPT !.status = 400, !.presented = state]
                ELSE IF code = ""
                THEN [oauth EXCEPT !.status = 400, !.presented = state]
                ELSE [oauth EXCEPT !.status = 0, !.presented = state,
                                   !.await = "oauth.v2.access"]
    /\ UNCHANGED <<dmState, handlers, env, view, http>>

\* GET /slack/oauth_redirect up to its response or to the token exchange; ""
\* stands for a missing query parameter
OauthRedirect(state, code) ==
    /\ oauth.await = "idle"
    /\ oauth' = IF state = "" \/ state \notin oauth.states
                THEN [oauth EXCEPT !.status = 400, !.presented = state]
                ELSE IF code = ""
                THEN [oauth EXCEPT !.states = oauth.states \ {state},
                                   !.status = 400, !.presented = state]
                ELSE [oauth EXCEPT !.states = oauth.states \ {state},
                                   !.status = 0, !.presented = state,
                                   !.await = "oauth.v2.access"]
    /\ UNCHANGED <<dmState, handlers, env, view, http>>

\* app.client.oauth.v2.access returns or throws
AccessReturns(ok) ==
    /\ oauth.await = "oauth.v2.access"
    /\ oauth' = [oauth EXCEPT !.await = "idle",
                              !.status = IF ok THEN 200 ELSE 500,
                              !.exchanges = 1]
    /\ UNCHANGED <<dmState, handlers, env, view, http>>

\* the whole service: the events endpoint, the listeners and the OAuth routes
ServiceInit ==
    /\ dmState = [u \in Users |-> NoState]
    /\ handlers = [h \in Handlers |-> Idle]
    /\ env \in {e \in Envs : e.BATCH3_CHANNEL_ID = Batch3Id}
    /\ view = NoSubmission
    /\ http = NoTraffic
    /\ oauth \in {[NoInstall EXCEPT !.configured = c] : c \in BOOLEAN}

ServiceNext ==
    \/ \E request \in {r \in Requests({"U1"}) : r.contentType = "application/json"} :
          Post(request)
    \/ \E throws \in BOOLEAN : ProcessEvent("h1", throws)
    \/ Resume("h1", {"ok", "no_channel"}, PostResults, {"ok", "not_in_channel"})
    \/ \E token \in Tokens : Install(token)
    \/ \E state \in Tokens \cup {""}, code \in {"code", ""} : OauthRedirect(state, code)
    \/ \E ok \in BOOLEAN : AccessReturns(ok)

ServiceSpec == ServiceInit /\ [][ServiceNext]_vars

(* ------- POST /slack/events behind its middleware (part_002) ----------- *)

\* RATE_LIMIT_MAX, the requests one address may make per window
RATE_LIMIT_MAX == 100

\* requireSlackJson lets the request pass
RequireSlackJson(request) == request.contentType = "application/json"

\* a limiter that lets request RATE_LIMIT_MAX + 1 of a window through
RateLimiterOneMore(count, expired) ==
    LET current == IF expired THEN 0 ELSE count
    IN  IF current > RATE_LIMIT_MAX
        THEN [passes |-> FALSE, count |-> current]
        ELSE [passes |-> TRUE, count |-> current + 1]

\* rateLimiter: the count of the address after the clean-up of an expired
\* window, whether the request passes, and the count it leaves
RateLimiter(count, expired) ==
    LET current == IF expired THEN 0 ELSE count
    IN  IF current >= RATE_LIMIT_MAX
        THEN [passes |-> FALSE, count |-> current]
        ELSE [passes |-> TRUE, count |-> current + 1]

\* the response of the route handler behind the middleware
LimitedEventsResponse(request, bodyParser) ==
    LET rawBody == ReqBody(request, bodyParser)
    IN  IF rawBody.kind = "empty" THEN Response(400, "json", "error: Empty request body")
        ELSE IF rawBody.kind = "garbage" THEN Response(400, "json", "error: Invalid JSON")
        ELSE IF rawBody.kind = "null" THEN Response(200, "text", "")
        ELSE IF rawBody.type = "url_verification"
        THEN Response(200, "json", "challenge: " \o rawBody.challenge)
        ELSE Response(200, "text", "")

\* the response of the middleware chain and the route handler
LimitedResponse(request, bodyParser, passes) ==
    IF ~RequireSlackJson(request)
    THEN Response(400, "json", "error: Content-Type must be application/json")
    ELSE IF ~passes THEN Response(429, "json", "error: Too many requests")
    ELSE LimitedEventsResponse(request, bodyParser)

\* a request runs through express.raw, requireSlackJson, rateLimiter and the
\* route handler up to its response; expired says that the window of the
\* address is over when the request arrives
LimitedPost(request, expired) ==
    LET limited == RateLimiter(http.count, expired)
    IN  /\ http' = [http EXCEPT
                      !.request = request,
                      !.count = IF RequireSlackJson(request) THEN limited.count ELSE http.count,
                      !.response = LimitedResponse(request, http.bodyParser, limited.passes),
                      !.phase = "done"]
        /\ UNCHANGED <<dmState, handlers, env, view, oauth>>

\* the requests one address sends
LimitedRequests ==
    {Request(ct, raw) :
        ct \in {"application/json", "text/plain"},
        raw \in {EmptyBody, NotJson, JsonNull,
                 RawBody("object", "event_callback", "undefined", OtherEvent)}
                  \cup {RawBody("object", "url_verification", c, NoEvent) : c \in Challenges}}

LimitedNext ==
    \E request \in LimitedRequests, expired \in BOOLEAN : LimitedPost(request, expired)

LimitedSpec == EndpointInit /\ [][LimitedNext]_vars

(* -------- the message branch with the greeting trigger (part_002) ------ *)

\* texts of direct messages to the endpoint with the greeting trigger
GreetingTexts ==
    {<<>>, <<"h">>, <<"2">>, <<"h", "i">>, <<"H", "i">>, <<" ", "H", "I", " ">>,
     <<"h", " ", "i">>, <<"h", "i", " ", "2">>, <<"t", "h", "i", "s">>,
     <<"T", "h", "i", "s">>, <<"2", "h", "i">>}

\* the filters of the message branch: only IMs, no subtype, no bot_id, a user
GreetingFiltered(event) ==
    \/ event.channel_type # "im"
    \/ event.subtype # "none" \/ event.bot_id # "none"
    \/ event.user = NoUser

\* the message branch up to its first await: without record a greeting starts
\* the flow, with a record the conversation goes on as in app.message
GreetingStart(event, state, e) ==
    LET t == Invocation(event)
    IN  IF state.step = "none"
        THEN IF IsGreeting(Trim(event.text)) THEN Dm(t, 641) ELSE Return(t)
        ELSE MessageStart(event, state, e)

\* the message branch of the endpoint; its askBatch branch is left out (the
\* catch and finally that close it have no try), so deliveries stop for a
\* user whose record reaches askBatch
GreetingMessage(h, event) ==
    /\ Free(h)
    /\ IF event.type # "message" \/ GreetingFiltered(event)
       THEN /\ handlers' = [handlers EXCEPT ![h] = Return(Invocation(event))]
            /\ UNCHANGED dmState
       ELSE /\ dmState[event.user].step # "askBatch"
            /\ handlers' = [handlers EXCEPT ![h] =
                  GreetingStart(event, dmState[event.user], env)]
            /\ dmState' = Set(event.user, MessageRecord(event, dmState[event.user]))
    /\ UNCHANGED <<env, view, http, oauth>>

GreetingNext ==
    \/ \E event \in JoinEvents({"U1"}) : MemberJoined("h1", event)
    \/ \E event \in MessageEvents({"U1"}, GreetingTexts) \cup BotMessages({"U1"}) :
          GreetingMessage("h1", event)
    \/ \E res \in OpenResults : OpenReturns("h1", res)
    \/ \E res \in PostResults : PostReturns("h1", res)

GreetingSpec == Init /\ [][GreetingNext]_vars

(* ------------------------- reading the handlers ------------------------ *)

InFlight(t) == t.await \notin {"idle", "returned"}

Returned(t) == t.await = "returned"

\* the calls of one API an invocation completed, in order
CallsOf(t, api) == SelectSeq(t.out, LAMBDA c : c.api = api)

\* the texts of the messages an invocation posted
PostedTexts(t) ==
    {c.text : c \in {t.out[i] : i \in 1 .. Len(t.out)} \cap
                     {d \in {t.out[i] : i \in 1 .. Len(t.out)} :
                        d.api = "chat.postMessage" /\ d.result = "ok"}}

\* the invocation made exactly one dm() call, for this text
SendsOnce(t, text) ==
    /\ Len(CallsOf(t, "conversations.open")) = 1
    /\ Len(CallsOf(t, "chat.postMessage")) =
         IF CallsOf(t, "conversations.open")[1].result = "ok" THEN 1 ELSE 0
    /\ \A i \in 1 .. Len(t.out) :
         t.out[i].api = "chat.postMessage" =>
           t.out[i].text = text /\ t.out[i].channel = ImOf(t.event.user)

\* the invocation is a direct message of a human that passed the filters
IsAnswer(t) == t.event.type = "message" /\ ~Filtered(t.event)

\* the invocation took the askBatch branch with a resolved channel
InInviteBranch(t) == IsAnswer(t) /\ t.line \in {475, 476, 483}

InviteFailed(t) ==
    \E i \in 1 .. Len(t.out) :
        t.out[i].api = "conversations.invite" /\ t.out[i].result # "ok"

InviteSucceeded(t) ==
    \E i \in 1 .. Len(t.out) :
        t.out[i].api = "conversations.invite" /\ t.out[i].result = "ok"

(* ------------------------------- claims -------------------------------- *)

\* C1: a user's record only moves AwaitingName -> AwaitingBatch -> removed:
\* no step takes a record from askBatch back to askName, removes a record
\* that is in askName, or creates a record directly in askBatch.
C1_ForwardOnly ==
    [][\A u \in Users :
          /\ dmState[u].step = "askBatch" => dmState'[u].step # "askName"
          /\ dmState[u].step = "askName" => dmState'[u].step # "none"
          /\ dmState[u].step = "none" => dmState'[u].step # "askBatch"]_vars

\* C2: deliveries for the same user do not interleave their transitions: two
\* invocations for one user are never in the invite branch at the same time
\* (handled one after the other, the second finds the record deleted), so two
\* concurrent valid batch answers cause at most one invite call.
C2_SerializedPerUser ==
    \A h \in Handlers, k \in Handlers :
        (/\ h # k
         /\ InFlight(handlers[h]) /\ InInviteBranch(handlers[h])
         /\ InFlight(handlers[k]) /\ InInviteBranch(handlers[k]))
        => handlers[h].event.user # handlers[k].event.user

\* the digit characters of a text, in order
RECURSIVE DigitsOf(_)
DigitsOf(s) ==
    IF s = <<>> THEN <<>>
    ELSE IF IsDigit(Head(s)) THEN <<Head(s)>> \o DigitsOf(Tail(s))
    ELSE DigitsOf(Tail(s))

OnlyWhitespace(s) == \A i \in 1 .. Len(s) : s[i] = " "

\* the channel configured for a digit string, Unset when there is none
ConfiguredChannel(d) ==
    IF d = <<"2">> THEN env.BATCH2_CHANNEL_ID
    ELSE IF d = <<"3">> THEN env.BATCH3_CHANNEL_ID
    ELSE Unset

\* this step delivers to slot h a direct message of a user whose record is
\* in the given step
AnswerIn(h, step) ==
    /\ Free(h)
    /\ handlers'[h] # handlers[h]
    /\ IsAnswer(handlers'[h])
    /\ dmState[handlers'[h].event.user].step = step

\* this step resumes the invocation in slot h, which is at the given line
ResumeAt(h, line) ==
    /\ InFlight(handlers[h])
    /\ handlers[h].line = line
    /\ handlers'[h] # handlers[h]

\* C3 as stated: after a failed invite the record is deleted and one
\* fallback message is sent; a later join event for the announcement channel
\* or a greeting of a user without record creates an AwaitingName record.
C3_Original ==
    \A h \in Handlers :
        LET t == handlers[h]
        IN  /\ (Returned(t) /\ InInviteBranch(t) /\ InviteFailed(t))
                 => /\ dmState[t.event.user].step = "none"
                    /\ SendsOnce(t, FallbackText)
            /\ (Returned(t) /\ t.event.type = "member_joined_channel" /\ t.line = 402)
                 => dmState[t.event.user] = AskName
            /\ (Returned(t) /\ IsAnswer(t) /\ t.line = 0 /\ IsGreeting(Trim(t.event.text)))
                 => dmState[t.event.user] = AskName

\* C3 (amended): after a failed invite the record is deleted and exactly one
\* message, the fallback, is sent by one dm() call; a later join event for
\* the announcement channel creates an AwaitingName record once its name
\* prompt has been posted.
C3_InviteFailure ==
    \A h \in Handlers :
        LET t == handlers[h]
        IN  /\ (Returned(t) /\ InInviteBranch(t) /\ InviteFailed(t))
                 => /\ dmState[t.event.user].step = "none"
                    /\ SendsOnce(t, FallbackText)
            /\ (Returned(t) /\ t.event.type = "member_joined_channel"
                  /\ PostedTexts(t) # {})
                 => /\ dmState[t.event.user] = AskName
                    /\ SendsOnce(t, WelcomeText)

C3_Witness ==
    \E h \in Handlers :
        /\ Returned(handlers[h]) /\ InviteFailed(handlers[h])
        /\ PostedTexts(handlers[h]) = {FallbackText}
        /\ dmState[handlers[h].event.user].step = "none"

\* C4: after a successful invite the only message sent is the confirmation
\* naming the invited channel, never the moderator fallback, and the record
\* is deleted.
C4_OnlyConfirmation ==
    \A h \in Handlers :
        LET t == handlers[h]
        IN  (Returned(t) /\ InviteSucceeded(t))
              => /\ PostedTexts(t) \subseteq {InvitedText(t.targetChannelId)}
                 /\ dmState[t.event.user].step = "none"

\* C5: once a valid batch answer of a user in AwaitingBatch is processed (the
\* invite call is made), the user's record is eventually deleted, whatever
\* the results of the invite and of the message calls after it.
C5_EventuallyDeleted ==
    \A u \in Users :
        (\E h \in Handlers :
            handlers[h].await = "conversations.invite" /\ handlers[h].event.user = u)
          ~> (dmState[u].step = "none")

C5_Witness ==
    \E h \in Handlers :
        /\ Returned(handlers[h]) /\ InviteFailed(handlers[h])
        /\ PostedTexts(handlers[h]) = {}
        /\ dmState[handlers[h].event.user].step = "none"

\* C6: the text sent to the user after a failed invite does not depend on
\* the failure reason: for every error code of conversations.invite it is the
\* same generic moderator fallback, and it never carries the error code.
C6_GenericFallback ==
    \A i \in 1 .. Len(view.out) :
        ( /\ view.out[1].api = "conversations.invite" /\ view.out[1].result # "ok"
          /\ view.out[i].api = "chat.postMessage" )
          => /\ view.out[i].text = FallbackText
             /\ view.out[i].text.arg # <<view.out[1].result>>

\* C7: an answer of a user in AwaitingBatch whose digits are not a batch
\* identifier leaves the record store unchanged, makes no invite call and
\* sends one re-prompt.
C7_InvalidBatch ==
    [][\A h \in Handlers :
          LET t == handlers'[h]
              invalid == DigitsOf(t.event.text) \notin {<<"2">>, <<"3">>}
          IN  /\ (AnswerIn(h, "askBatch") /\ invalid)
                   => /\ dmState' = dmState
                      /\ t.line = 466 /\ InFlight(t) /\ t.out = <<>>
              /\ (ResumeAt(h, 466) /\ invalid)
                   => /\ dmState' = dmState
                      /\ t.line = 466
                      /\ CallsOf(t, "conversations.invite") = <<>>
                      /\ t.await # "conversations.invite"
                      /\ Returned(t) => SendsOnce(t, AskBatchAgainText)]_vars

C7_Witness ==
    \E h \in Handlers :
        /\ Returned(handlers[h]) /\ IsAnswer(handlers[h]) /\ handlers[h].line = 466
        /\ DigitsOf(handlers[h].event.text) = <<"2", "3">>
        /\ PostedTexts(handlers[h]) = {AskBatchAgainText}
        /\ dmState[handlers[h].event.user].step = "askBatch"

\* C8: an answer that names a valid batch whose channel is not configured is
\* handled like an invalid one: the record store is unchanged, no invite call
\* is made and the user is re-prompted.
C8_UnconfiguredBatch ==
    [][\A h \in Handlers :
          LET t == handlers'[h]
              d == DigitsOf(t.event.text)
              unconfigured == d \in {<<"2">>, <<"3">>} /\ ConfiguredChannel(d) = Unset
          IN  /\ (AnswerIn(h, "askBatch") /\ unconfigured)
                   => /\ dmState' = dmState
                      /\ t.line = 466 /\ InFlight(t) /\ t.out = <<>>
              /\ (ResumeAt(h, 466) /\ unconfigured)
                   => /\ dmState' = dmState
                      /\ t.line = 466
                      /\ CallsOf(t, "conversations.invite") = <<>>
                      /\ t.await # "conversations.invite"
                      /\ Returned(t) => SendsOnce(t, AskBatchAgainText)]_vars

C8_Witness ==
    \E h \in Handlers :
        /\ Returned(handlers[h]) /\ IsAnswer(handlers[h]) /\ handlers[h].line = 466
        /\ DigitsOf(handlers[h].event.text) = <<"3">>
        /\ env.BATCH3_CHANNEL_ID = Unset
        /\ PostedTexts(handlers[h]) = {AskBatchAgainText}
        /\ dmState[handlers[h].event.user].step = "askBatch"

\* C9: batch resolution depends only on the digits of the answer: an answer
\* in AwaitingBatch leads to an invite exactly when a channel is configured
\* for the string of its digits, the invite is for that channel and for the
\* sending user.
C9_DigitsResolve ==
    \A h \in Handlers :
        LET t == handlers[h]
            ch == ConfiguredChannel(DigitsOf(t.event.text))
        IN  (IsAnswer(t) /\ t.line \in {466, 475, 476, 483})
              => /\ (ch = Unset) <=> (t.line = 466)
                 /\ t.targetChannelId = ch
                 /\ \A i \in 1 .. Len(t.out) :
                      t.out[i].api = "conversations.invite"
                        => t.out[i].channel = ch /\ t.out[i].users = t.event.user

C9_Witness ==
    \E h \in Handlers :
        LET t == handlers[h]
        IN  /\ IsAnswer(t) /\ t.event.text = <<"h", "2">>
            /\ env.BATCH3_CHANNEL_ID = Batch3Id
            /\ Len(t.out) > 0
            /\ t.out[1] = Call("conversations.invite", Batch2Id, t.event.user, NoText, "ok")

\* C10: an empty or whitespace-only answer of a user in AwaitingName leaves
\* the record in AwaitingName without a name and sends one name re-prompt,
\* however often it is repeated.
C10_EmptyName ==
    [][\A h \in Handlers :
          LET t == handlers'[h]
              u == t.event.user
          IN  /\ (AnswerIn(h, "askName") /\ OnlyWhitespace(t.event.text))
                   => /\ dmState' = dmState
                      /\ t.line = 439 /\ InFlight(t) /\ t.out = <<>>
              /\ ResumeAt(h, 439)
                   => /\ dmState' = dmState
                      /\ dmState'[u] = AskName
                      /\ t.line = 439
                      /\ Returned(t) => SendsOnce(t, AskNameAgainText)]_vars

C10_Witness ==
    \E h \in Handlers :
        /\ Returned(handlers[h]) /\ IsAnswer(handlers[h]) /\ handlers[h].line = 439
        /\ handlers[h].event.text = <<" ", " ">>
        /\ PostedTexts(handlers[h]) = {AskNameAgainText}
        /\ dmState[handlers[h].event.user] = AskName

\* r is s without its leading and trailing whitespace
IsTrimOf(r, s) ==
    /\ r = <<>> \/ (r[1] # " " /\ r[Len(r)] # " ")
    /\ \E a \in 0 .. Len(s) :
          /\ a + Len(r) <= Len(s)
          /\ SubSeq(s, a + 1, a + Len(r)) = r
          /\ \A i \in 1 .. Len(s) : (i <= a \/ i > a + Len(r)) => s[i] = " "

\* C11: a non-empty answer of a user in AwaitingName sets the record to
\* AwaitingBatch with the trimmed answer as name and sends one batch prompt
\* carrying exactly that name; a later invalid batch answer leaves the stored
\* name as it is.
C11_NameCaptured ==
    [][\A h \in Handlers :
          LET t == handlers'[h]
              u == t.event.user
          IN  /\ (AnswerIn(h, "askName") /\ ~OnlyWhitespace(t.event.text))
                   => /\ dmState'[u].step = "askBatch"
                      /\ IsTrimOf(dmState'[u].name, t.event.text)
                      /\ \A v \in Users \ {u} : dmState'[v] = dmState[v]
                      /\ t.line = 443 /\ InFlight(t) /\ t.out = <<>>
              /\ ResumeAt(h, 443)
                   => /\ dmState' = dmState
                      /\ IsTrimOf(dmState[u].name, t.event.text)
                      /\ Returned(t) => SendsOnce(t, AskBatchText(dmState[u].name))
              /\ (AnswerIn(h, "askBatch") \/ ResumeAt(h, 466))
                   => (t.line = 466 => dmState'[u] = dmState[u])]_vars

C11_Witness ==
    \E h \in Handlers :
        /\ Returned(handlers[h]) /\ IsAnswer(handlers[h]) /\ handlers[h].line = 466
        /\ PostedTexts(handlers[h]) = {AskBatchAgainText}
        /\ dmState[handlers[h].event.user] = AskBatch(<<"h", " ", "i">>)

\* this step is the endpoint answering a request
Answered ==
    /\ http.phase # "acked"
    /\ http' # http

\* the handshake envelope with challenge c, delivered as JSON
Handshake(c) ==
    Request("application/json", RawBody("object", "url_verification", c, NoEvent))

\* C12: a handshake envelope carrying challenge c is answered with status
\* 200 and the JSON body {"challenge": c}; handling it changes no record,
\* starts no handler and makes no outbound call.
C12_HandshakeEcho ==
    [][\A c \in Challenges :
          (Answered /\ http'.request = Handshake(c))
            => /\ http'.response = Response(200, "json", "challenge: " \o c)
               /\ http'.phase = "done"
               /\ dmState' = dmState
               /\ handlers' = handlers]_vars

C12_Witness ==
    /\ http.request = Handshake("abc123")
    /\ http.response = Response(200, "json", "challenge: abc123")
    /\ dmState["U1"].step = "askBatch"

\* C13: every handshake envelope gets its challenge echoed, whatever requests
\* came before it and whatever else the endpoint checks.
C13_HandshakeAlwaysEchoed ==
    \A c \in Challenges :
        (http.phase = "done" /\ http.request = Handshake(c))
          => http.response = Response(200, "json", "challenge: " \o c)

\* the success acknowledgment
Ack == Response(200, "text", "")

\* an event_callback envelope delivered as JSON
IsEventCallback(request) ==
    /\ request.contentType = "application/json"
    /\ request.raw.kind = "object"
    /\ request.raw.type = "event_callback"

\* C14: the acknowledgment of an event_callback delivery is sent before its
\* handler changes a record or makes an outbound call, and it stays the same
\* whether the handler then succeeds, fails or never finishes.
C14_AckBeforeHandling ==
    [][/\ (Answered /\ IsEventCallback(http'.request))
            => /\ http'.response = Ack
               /\ dmState' = dmState /\ handlers' = handlers
       /\ (dmState' # dmState \/ handlers' # handlers)
            => /\ IsEventCallback(http.request)
               /\ http.response = Ack
               /\ http'.response = Ack]_vars

C14_Witness ==
    /\ IsEventCallback(http.request) /\ http.response = Ack
    /\ Returned(handlers["h1"]) /\ InviteFailed(handlers["h1"])
    /\ PostedTexts(handlers["h1"]) = {}

\* C15: every POST to the events endpoint is answered with a success
\* status, whatever its payload and whatever came before it.
C15_AlwaysSuccess ==
    http.phase # "idle" => http.response.status = 200

\* an envelope, delivered as JSON, that the endpoint has nothing to do for:
\* its type is neither the handshake nor event_callback, or it is an
\* event_callback whose event is neither a join nor a message
Discarded(request) ==
    /\ request.contentType = "application/json"
    /\ request.raw.kind = "object"
    /\ \/ request.raw.type \notin {"url_verification", "event_callback"}
       \/ /\ request.raw.type = "event_callback"
          /\ request.raw.event.type \notin {"member_joined_channel", "message"}

\* C16: an envelope of unknown type, and an event_callback with an event of
\* unknown type, is acknowledged with success and discarded: no record is
\* created, changed or deleted and no handler starts or makes a call.
C16_UnknownDiscarded ==
    [][/\ (Answered /\ Discarded(http'.request))
            => /\ http'.response = Ack
               /\ dmState' = dmState /\ handlers' = handlers
       /\ (Discarded(http.request) /\ ~Answered)
            => /\ http'.response = Ack
               /\ dmState' = dmState /\ handlers' = handlers]_vars

C16_Witness ==
    /\ http.request = Request("application/json",
                              RawBody("object", "event_callback", "undefined", OtherEvent))
    /\ http.phase = "done" /\ http.response = Ack
    /\ dmState["U1"].step = "askName"

\* this step delivers a join event to slot h
JoinIn(h) ==
    /\ Free(h)
    /\ handlers'[h] # handlers[h]
    /\ handlers'[h].event.type = "member_joined_channel"

\* C17: a join event for a channel other than the configured announcement
\* channel is a no-op: the handler returns without sending anything and
\* every record, that of the joining user included, stays as it is.
C17_OtherChannelNoOp ==
    [][\A h \in Handlers :
          (JoinIn(h) /\ handlers'[h].event.channel # env.ANNOUNCE_CHANNEL_ID)
            => /\ dmState' = dmState
               /\ Returned(handlers'[h])
               /\ handlers'[h].out = <<>>]_vars

C17_Witness ==
    \E h \in Handlers :
        /\ Returned(handlers[h]) /\ handlers[h].out = <<>>
        /\ handlers[h].event = JoinEvent(OtherId, "U1")
        /\ env.ANNOUNCE_CHANNEL_ID = AnnounceId
        /\ dmState["U1"].step = "askBatch"

\* the invocation handled a join event of a user for the configured
\* announcement channel
AnnouncedJoin(t) ==
    /\ t.event.type = "member_joined_channel"
    /\ t.event.user # NoUser
    /\ env.ANNOUNCE_CHANNEL_ID # Unset
    /\ t.event.channel = env.ANNOUNCE_CHANNEL_ID

\* C18 as stated: after a join event for the announcement channel is handled
\* for user u, u has a record in AwaitingName without name and one name
\* prompt was sent to u.
C18_Original ==
    \A h \in Handlers :
        LET t == handlers[h]
        IN  (Returned(t) /\ AnnouncedJoin(t))
              => /\ dmState[t.event.user] = AskName
                 /\ SendsOnce(t, WelcomeText)

\* C18 (amended): the join handler makes one dm() call, for the name prompt;
\* when the prompt was delivered the user has a record in AwaitingName
\* without name, and when it could not be delivered every record is left as
\* it was.
C18_JoinCreatesRecord ==
    [][\A h \in Handlers :
          LET t == handlers'[h]
              u == t.event.user
          IN  /\ (JoinIn(h) /\ AnnouncedJoin(t))
                   => /\ dmState' = dmState
                      /\ t.line = 402 /\ InFlight(t) /\ t.out = <<>>
              /\ (ResumeAt(h, 402) /\ Returned(t))
                   => /\ AnnouncedJoin(t)
                      /\ SendsOnce(t, WelcomeText)
                      /\ IF PostedTexts(t) = {WelcomeText}
                         THEN dmState' = [dmState EXCEPT ![u] = AskName]
                         ELSE PostedTexts(t) = {} /\ dmState' = dmState
              /\ (ResumeAt(h, 402) /\ ~Returned(t)) => dmState' = dmState]_vars

C18_Witness ==
    \E h \in Handlers :
        /\ Returned(handlers[h]) /\ AnnouncedJoin(handlers[h])
        /\ PostedTexts(handlers[h]) = {WelcomeText}
        /\ Len(CallsOf(handlers[h], "chat.postMessage")) = 1
        /\ dmState[handlers[h].event.user] = AskName

\* this step delivers a message event to slot h
MessageIn(h) ==
    /\ Free(h)
    /\ handlers'[h] # handlers[h]
    /\ handlers'[h].event.type = "message"

\* the message carries a bot or system marker
Marked(event) == event.subtype # "none" \/ event.bot_id # "none"

\* C19: a direct message that carries a subtype or a bot id never enters the
\* flow: whatever the record of its user, the handler returns at once,
\* changes no record, invites nobody and sends nothing.
C19_MarkedIgnored ==
    [][\A h \in Handlers :
          (MessageIn(h) /\ Marked(handlers'[h].event))
            => /\ dmState' = dmState
               /\ Returned(handlers'[h])
               /\ handlers'[h].out = <<>>]_vars

\* C20: a direct message of a user without record whose text is not a
\* greeting sends nothing and creates no record.
C20_StrangerIgnored ==
    [][\A h \in Handlers :
          (AnswerIn(h, "none") /\ ~IsGreeting(Trim(handlers'[h].event.text)))
            => /\ dmState' = dmState
               /\ Returned(handlers'[h])
               /\ handlers'[h].out = <<>>]_vars

C20_Witness ==
    \E h \in Handlers :
        /\ Returned(handlers[h]) /\ IsAnswer(handlers[h])
        /\ handlers[h].event.text = <<"h", "2">>
        /\ handlers[h].out = <<>>
        /\ dmState[handlers[h].event.user] = NoState

\* a greeting word occurs in the text as a word of its own, in any case
HasGreetingWord(text) ==
    LET s == ToLower(text)
    IN  \E i \in 1 .. Len(s), j \in 1 .. Len(s) :
            /\ i <= j
            /\ SubSeq(s, i, j) \in Greetings
            /\ i = 1 \/ s[i - 1] = " "
            /\ j = Len(s) \/ s[j + 1] = " "

\* C21: with the greeting trigger, a direct message of a user without record
\* starts the flow (name prompt, then a record in AwaitingName) exactly when
\* a greeting word occurs in its text as a word of its own, in any case;
\* every other text creates no record and sends nothing.
C21_GreetingWordStarts ==
    [][\A h \in Handlers :
          LET t == handlers'[h]
          IN  /\ (MessageIn(h) /\ ~GreetingFiltered(t.event)
                     /\ dmState[t.event.user].step = "none")
                   => /\ dmState' = dmState
                      /\ IF HasGreetingWord(t.event.text)
                         THEN t.line = 641 /\ InFlight(t)
                         ELSE Returned(t) /\ t.out = <<>>
              /\ (ResumeAt(h, 641) /\ Returned(t) /\ PostedTexts(t) # {})
                   => /\ SendsOnce(t, HelloText)
                      /\ dmState' = [dmState EXCEPT ![t.event.user] = AskName]]_vars

\* C22: a record comes into existence only when the name prompt of a join
\* event for the announcement channel, or of a greeting of a user without
\* record, has been sent; no other event (another direct message, a
\* handshake, an unknown event, a join of another channel, an OAuth request)
\* creates a record.
C22_RecordsOnlyFromTriggers ==
    [][\A u \in Users :
          (dmState[u].step = "none" /\ dmState'[u].step # "none")
            => /\ dmState'[u] = AskName
               /\ \E h \in Handlers :
                     LET event == handlers[h].event
                     IN  /\ event.user = u
                         /\ \/ /\ ResumeAt(h, 402)
                               /\ event.type = "member_joined_channel"
                               /\ env.ANNOUNCE_CHANNEL_ID # Unset
                               /\ event.channel = env.ANNOUNCE_CHANNEL_ID
                            \/ /\ ResumeAt(h, 641)
                               /\ event.type = "message"
                               /\ IsGreeting(Trim(event.text))]_vars

C22_Witness ==
    /\ dmState["U1"] = AskName
    /\ http.request = Handshake("abc123") /\ http.phase = "done"
    /\ oauth.status = 200
    /\ Returned(handlers["h1"]) /\ AnnouncedJoin(handlers["h1"])

\* C23: deliveries for two users, in any interleaving, do not touch each
\* other's record: a step of a handler changes only the record of the user
\* of its event, a name enters a record only from a message of that user,
\* and a message that carries a name goes to the user who gave it.
C23_NoCrossContamination ==
    [][/\ \A u \in Users :
            dmState'[u] # dmState[u]
              => \E h \in Handlers :
                    /\ handlers'[h] # handlers[h]
                    /\ handlers'[h].event.user = u
                    /\ dmState'[u].step = "askBatch"
                         => IsTrimOf(dmState'[u].name, handlers'[h].event.text)
       /\ \A h \in Handlers :
            LET t == handlers'[h]
            IN  \A i \in 1 .. Len(t.out) :
                   t.out[i].api = "chat.postMessage"
                     => /\ t.out[i].channel = ImOf(t.event.user)
                        /\ t.out[i].text = AskBatchText(t.out[i].text.arg)
                             => IsTrimOf(t.out[i].text.arg, t.event.text)]_vars

C23_Witness ==
    /\ handlers["h1"].event.user = "U1" /\ handlers["h2"].event.user = "U2"
    /\ PostedTexts(handlers["h1"]) = {AskBatchText(<<"h">>)}
    /\ PostedTexts(handlers["h2"]) = {AskBatchText(<<"2">>)}
    /\ dmState["U1"] = AskBatch(<<"h">>) /\ dmState["U2"] = AskBatch(<<"2">>)

\* ---------------------------------------------------------------------
\* Concurrent deliveries (src/index.js): every POST /slack/events runs its
\* own async handler, so an invocation of one user may stay at its await
\* while the endpoint accepts the deliveries of another user.
\* ---------------------------------------------------------------------

\* the invocation slot that runs the deliveries of a user
SlotOf(u) == IF u = "U1" THEN "h1" ELSE "h2"

\* the deliveries of one user: joins and direct messages
HungEvents(u) == JoinEvents({u}) \cup Answers({u}, ConcurrentTexts)

\* the endpoint up to its response, while invocations of other deliveries
\* may still be awaiting their calls
Deliver(h, request) ==
    /\ http.phase # "acked"
    /\ Free(h)
    /\ http' = [http EXCEPT
                  !.request = request,
                  !.response = EventsResponse(request, http.bodyParser),
                  !.writes = HandlerWrites(request, http.bodyParser),
                  !.phase = IF Dispatches(request, http.bodyParser) THEN "acked" ELSE "done"]
    /\ UNCHANGED <<dmState, handlers, env, view, oauth>>

HungInit ==
    /\ dmState = [u \in Users |-> NoState]
    /\ handlers = [h \in Handlers |-> Idle]
    /\ env = [ANNOUNCE_CHANNEL_ID |-> AnnounceId,
              BATCH2_CHANNEL_ID |-> Batch2Id,
              BATCH3_CHANNEL_ID |-> Unset]
    /\ view = NoSubmission
    /\ http = [NoTraffic EXCEPT !.bodyParser = 1]
    /\ oauth = NoInstall

HungNext ==
    \/ \E u \in Users : \E event \in HungEvents(u) :
          Deliver(SlotOf(u), Request("application/json",
                     RawBody("object", "event_callback", "undefined", event)))
    \/ \E throws \in BOOLEAN :
          ProcessEvent(SlotOf(http.request.raw.event.user), throws)
    \/ Resume("h1", {"ok", "no_channel"}, {"ok"}, {"ok", "not_in_channel"})
    \/ Resume("h2", {"ok", "no_channel"}, {"ok"}, {"ok", "not_in_channel"})

\* the calls made for U2 return; those made for U1 may never return
HungSpec ==
    HungInit /\ [][HungNext]_vars
        /\ WF_vars(Resume("h2", {"ok", "no_channel"}, {"ok"}, {"ok", "not_in_channel"}))

\* C24: while a call made for user U1 never returns, every delivery of user
\* U2 is still acknowledged with 200 {ok: true}, every invocation started for
\* U2 runs to its end, and a valid batch answer of U2 still ends with U2's
\* record deleted.
C24_OthersAdvance ==
    /\ [](/\ http.phase = "acked"
          /\ http.request.raw.event.user = "U2"
          /\ InFlight(handlers["h1"])
          => http.response = Ack)
    /\ InFlight(handlers["h2"]) ~> Returned(handlers["h2"])
    /\ (handlers["h2"].await = "conversations.invite") ~> (dmState["U2"].step = "none")

C24_Witness ==
    /\ handlers["h1"].await = "conversations.open"
    /\ handlers["h1"].out = <<>>
    /\ Returned(handlers["h2"])
    /\ InviteSucceeded(handlers["h2"])
    /\ dmState["U2"].step = "none"
    /\ http.request.raw.event.user = "U2"
    /\ http.response = Ack

\* the last call of invocation t was a call of dm() that failed
DmFailed(t) ==
    /\ t.out # <<>>
    /\ t.out[Len(t.out)].api \in {"conversations.open", "chat.postMessage"}
    /\ t.out[Len(t.out)].result # "ok"

\* C25: when the message handler ends on a failed dm() call (the direct
\* channel could not be opened, or the message could not be posted), the
\* user's record is the record the handler found: AwaitingName without name
\* in the name branch, AwaitingBatch in the batch branch.
C25_FailureKeepsRecord ==
    \A h \in Handlers :
        LET t == handlers[h]
            u == t.event.user
        IN  (Returned(t) /\ t.event.type = "message" /\ DmFailed(t))
              => /\ t.line \in {439, 443} => dmState[u] = AskName
                 /\ t.line \in {466, 476, 483} => dmState[u].step = "askBatch"

\* every value the flow needs is set in process.env
Configured(e) ==
    /\ e.ANNOUNCE_CHANNEL_ID # Unset
    /\ e.BATCH2_CHANNEL_ID # Unset
    /\ e.BATCH3_CHANNEL_ID # Unset

\* C26: the process accepts a delivery (answers a request to the events
\* endpoint with 200) only when the announcement channel id and the channel
\* id of every valid batch are configured.
C26_FailFast ==
    http.response.status = 200 => Configured(env)

\* slot h starts handling again the event whose handling it completed
Redelivered(h) ==
    /\ Returned(handlers[h])
    /\ handlers'[h].event = handlers[h].event
    /\ InFlight(handlers'[h])

\* C27: handling the same event a second time, after its first handling
\* completed, leaves the record store as the first handling left it and makes
\* no invite call.
C27_DuplicateIdempotent ==
    [][\A h \in Handlers :
          Redelivered(h)
            => /\ dmState' = dmState
               /\ handlers'[h].await # "conversations.invite"]_vars

\* client.users.info({ user }): the account the platform reports as a bot
UsersInfo(u) == [is_bot |-> u = "U2"]

\* C28: a join event of an account the platform reports as a bot never
\* triggers the flow: the handler makes no call for it and no record is
\* created for it.
C28_BotJoinIgnored ==
    \A u \in Users :
        UsersInfo(u).is_bot
          => /\ dmState[u] = NoState
             /\ \A h \in Handlers :
                   LET t == handlers[h]
                   IN  (t.event.type = "member_joined_channel" /\ t.event.user = u)
                         => ~InFlight(t) /\ t.out = <<>>

\* ---------------------------------------------------------------------
\* The lobby listeners of the modal variant (src/app.js, first variant):
\* member_joined_channel with withRetry inside try/catch, and the
\* open_batch_form action, which awaits views.open outside any try.
\* ---------------------------------------------------------------------

\* process.env.LOBBY_CHANNEL_ID
LobbyId == "C_LOBBY"

LobbyWelcomeText == Msg("Welcome! Please pick your batch.", <<>>)

\* the API of the call a lobby listener awaits at `line`
LobbyApi(line) ==
    CASE line = 59 -> "users.info"
      [] line = 62 -> "conversations.open"
      [] line = 68 -> "chat.postMessage"
      [] OTHER -> "views.open"

\* the call a lobby listener awaits, with its result
LobbyCall(v, res) ==
    Call(LobbyApi(v.line),
         IF v.line = 68 THEN ImOf(v.user) ELSE Unset,
         IF v.line = 68 THEN Unset ELSE v.user,
         IF v.line = 68 THEN LobbyWelcomeText ELSE NoText,
         res)

\* slackApp.event('member_joined_channel') up to its first await
MemberJoinedLobby(user, channel) ==
    LET v == [NoSubmission EXCEPT !.user = user]
    IN  /\ view.await \in {"idle", "returned", "thrown"}
        /\ view' = IF channel # LobbyId
                   THEN [v EXCEPT !.await = "returned"]
                   ELSE ViewCall(v, 59)
        /\ UNCHANGED <<dmState, handlers, env, http, oauth>>

\* the join listener after the withRetry call at v.line returned res
LobbyReturned(v, res) ==
    CASE v.line = 59 /\ ~UsersInfo(v.user).is_bot -> ViewCall(v, 62)
      [] v.line = 62 /\ res = "ok" -> ViewCall(v, 68)
      [] OTHER -> [v EXCEPT !.await = "returned"]

\* the wrapped call of the withRetry the join listener awaits returns or
\* throws; a throw of withRetry ends in the catch of the listener
LobbyCallReturns(res) ==
    LET v == [view EXCEPT !.out = Append(view.out, LobbyCall(view, res))]
        outcome == WithRetry(view.attempt, IF res = "no_channel" THEN "ok" ELSE res)
    IN  /\ view.await = "call"
        /\ res = "no_channel" => view.line = 62
        /\ view' = CASE outcome = "return" -> LobbyReturned(v, res)
                     [] outcome = "throw" -> [v EXCEPT !.await = "returned"]
                     [] OTHER -> [view EXCEPT !.attempt = view.attempt + 1]
        /\ UNCHANGED <<dmState, handlers, env, http, oauth>>

\* slackApp.action('open_batch_form'): ack(), then views.open is awaited
OpenBatchForm(user) ==
    /\ view.await \in {"idle", "returned", "thrown"}
    /\ view' = [NoSubmission EXCEPT !.user = user, !.line = 92, !.await = "views.open"]
    /\ UNCHANGED <<dmState, handlers, env, http, oauth>>

\* views.open returns, or throws out of the listener
ViewsOpenReturns(res) ==
    /\ view.await = "views.open"
    /\ view' = [view EXCEPT !.out = Append(view.out, LobbyCall(view, res)),
                            !.await = IF res = "ok" THEN "returned" ELSE "thrown"]
    /\ UNCHANGED <<dmState, handlers, env, http, oauth>>

LobbyNext ==
    \/ \E u \in Users, channel \in {LobbyId, OtherId} : MemberJoinedLobby(u, channel)
    \/ \E res \in {"ok", "no_channel"} \cup ModalErrors : LobbyCallReturns(res)
    \/ \E u \in Users : OpenBatchForm(u)
    \/ \E res \in {"ok"} \cup ModalErrors : ViewsOpenReturns(res)

LobbySpec == ModalInit /\ [][LobbyNext]_vars

\* C29: no handler invocation ends by propagating the exception of an
\* outbound call to the framework: every failure is caught inside the
\* handler.
C29_NoPropagation ==
    view.await # "thrown"

\* ---------------------------------------------------------------------
\* The DM concierge (src/unnamed/part_001): every direct message of a human
\* is answered with the help menu.
\* ---------------------------------------------------------------------

\* /\b(hi|hello|hey|help|namaste|hola|start|menu)\b/.test(text)
GREETING(text) ==
    \E i \in 1 .. Len(text), j \in 1 .. Len(text) :
        /\ i <= j
        /\ SubSeq(text, i, j) \in Greetings \cup {<<"m", "e", "n", "u">>}
        /\ i = 1 \/ text[i - 1] = " "
        /\ j = Len(text) \/ text[j + 1] = " "

\* the three filters of the listener: IM only, no subtype, no bot_id
ConciergeFiltered(event) ==
    \/ event.channel_type # "im"
    \/ event.subtype # "none"
    \/ event.bot_id # "none"

\* the listener after its filters, up to its await of sendHelpMenu
ConciergeStart(event) ==
    IF GREETING(Trim(ToLower(event.text))) \/ TRUE
    THEN [Invocation(event) EXCEPT !.line = 175, !.await = "chat.postMessage"]
    ELSE Return(Invocation(event))

\* a concierge that shows the menu for greetings only
ConciergeMessageOnGreeting(h, event) ==
    /\ Free(h)
    /\ handlers' = [handlers EXCEPT ![h] =
          IF ConciergeFiltered(event) \/ ~GREETING(Trim(ToLower(event.text)))
          THEN Return(Invocation(event))
          ELSE ConciergeStart(event)]
    /\ UNCHANGED <<dmState, env, view, http, oauth>>

\* slackApp.event('message') up to its first await
ConciergeMessage(h, event) ==
    /\ Free(h)
    /\ handlers' = [handlers EXCEPT ![h] =
          IF ConciergeFiltered(event)
          THEN Return(Invocation(event))
          ELSE ConciergeStart(event)]
    /\ UNCHANGED <<dmState, env, view, http, oauth>>

ConciergeNext ==
    \/ \E h \in Handlers :
          \E event \in MessageEvents({"U1"}, GreetingTexts) \cup BotMessages({"U1"}) :
              ConciergeMessage(h, event)
    \/ \E h \in Handlers, res \in PostResults : PostReturns(h, res)

ConciergeSpec == HungInit /\ [][ConciergeNext]_vars

\* the event is a direct message of a human: IM, no subtype, no bot id
HumanIm(event) ==
    /\ event.type = "message"
    /\ event.channel_type = "im"
    /\ event.subtype = "none"
    /\ event.bot_id = "none"

\* C30: in the DM concierge, the handler of a direct message of a human makes
\* exactly one chat.postMessage call, with the help menu, to the channel of
\* the message, whatever the text; for a message with a subtype or a bot id,
\* or outside an IM, it makes no call.
C30_OneHelpMenu ==
    \A h \in Handlers :
        LET t == handlers[h]
        IN  /\ InFlight(t) => HumanIm(t.event) /\ t.out = <<>>
            /\ Returned(t) =>
                 IF HumanIm(t.event)
                 THEN /\ Len(t.out) = 1
                      /\ t.out[1].api = "chat.postMessage"
                      /\ t.out[1].channel = t.event.channel
                      /\ t.out[1].text = HelpMenuText
                 ELSE t.out = <<>>

C30_Witness ==
    \E h \in Handlers :
        LET t == handlers[h]
        IN  /\ Returned(t) /\ HumanIm(t.event)
            /\ t.event.text = <<"2">>
            /\ Len(t.out) = 1 /\ t.out[1].result = "ok"
            /\ t.out[1].text = HelpMenuText

\* ---------------------------------------------------------------------
\* withRetry (src/app.js) on its own: the calls of fn, the waits between
\* them, and how it ends.  In RetrySpec `view` holds one run of withRetry.
\* ---------------------------------------------------------------------

BaseDelayMs == 800

\* Number(err?.data?.headers?.['retry-after'] || err?.headers?.['retry-after']):
\* NaN without header, else the number the header holds
RetryAfters ==
    {[finite |-> FALSE, n |-> 0]} \cup {[finite |-> TRUE, n |-> k] : k \in {-1, 0, 2}}

\* a delay that ignores the retry-after header
DelayBackoffOnly(attempt, retryAfter) == BaseDelayMs * (attempt + 1)

\* const delay = Number.isFinite(retryAfter) && retryAfter > 0
\*                 ? retryAfter * 1000 : baseDelayMs * (attempt + 1)
Delay(attempt, retryAfter) ==
    IF retryAfter.finite /\ retryAfter.n > 0
    THEN retryAfter.n * 1000
    ELSE BaseDelayMs * (attempt + 1)

\* let attempt = 0; let lastError;
RetryStart ==
    [attempt |-> 0, calls |-> 0, lastError |-> "none", retryAfter |-> [finite |-> FALSE, n |-> 0],
     waits |-> <<>>, value |-> "none", pc |-> "call"]

\* return await fn()
FnReturns(value) ==
    /\ view.pc = "call"
    /\ WithRetry(view.attempt, "ok") = "return"
    /\ view' = [view EXCEPT !.calls = view.calls + 1, !.value = value, !.pc = "returned"]
    /\ UNCHANGED <<dmState, handlers, env, http, oauth>>

\* catch (err): lastError = err; break at the last attempt, else wait
FnThrows(err, retryAfter) ==
    LET caught == [view EXCEPT !.calls = view.calls + 1, !.lastError = err,
                               !.retryAfter = retryAfter]
    IN  /\ view.pc = "call"
        /\ view' = IF WithRetry(view.attempt, err) = "throw"
                   THEN [caught EXCEPT !.pc = "thrown"]
                   ELSE [caught EXCEPT !.pc = "wait",
                            !.waits = Append(view.waits, Delay(view.attempt, retryAfter))]
        /\ UNCHANGED <<dmState, handlers, env, http, oauth>>

\* the timer of `await new Promise((res) => setTimeout(res, delay))` fires:
\* attempt += 1 and the loop calls fn again
TimerFires ==
    /\ view.pc = "wait"
    /\ view' = [view EXCEPT !.attempt = view.attempt + 1, !.pc = "call"]
    /\ UNCHANGED <<dmState, handlers, env, http, oauth>>

RetryInit ==
    /\ dmState = [u \in Users |-> NoState]
    /\ handlers = [h \in Handlers |-> Idle]
    /\ env \in {[BATCH2_CHANNEL_ID |-> Batch2Id, BATCH3_CHANNEL_ID |-> Batch3Id,
                 BATCH4_CHANNEL_ID |-> Batch4Id]}
    /\ view = RetryStart
    /\ http = NoTraffic
    /\ oauth = NoInstall

RetryNext ==
    \/ \E value \in {"v1", "v2"} : FnReturns(value)
    \/ \E err \in {"ratelimited", "missing_scope"}, retryAfter \in RetryAfters :
          FnThrows(err, retryAfter)
    \/ TimerFires

RetrySpec == RetryInit /\ [][RetryNext]_vars

\* C31: withRetry calls fn at most Retries + 1 times; the first successful
\* call ends it with the value of that call and no call follows; only the
\* failure of call Retries + 1 ends it by throwing, with the error of that
\* call.
C31_BoundedRetry ==
    [][/\ view'.calls <= Retries + 1
       /\ view.pc \in {"returned", "thrown"} => view' = view
       /\ (view.pc = "call" /\ view'.lastError = view.lastError
                            /\ view'.retryAfter = view.retryAfter /\ view'.pc # "thrown"
                            /\ view'.pc # "wait")
            => view'.pc = "returned" /\ view'.value # "none" /\ view'.calls = view.calls + 1
       /\ view'.pc = "thrown"
            => /\ view.pc = "call" /\ view'.calls = Retries + 1
               /\ view'.lastError # "none" /\ view'.value = "none"
       /\ view'.pc = "returned" => view'.calls = Len(view'.waits) + 1]_vars

C31_Witness ==
    /\ view.pc = "thrown"
    /\ view.calls = Retries + 1
    /\ view.lastError = "missing_scope"
    /\ Len(view.waits) = Retries

\* C40: after failed attempt k (from 0) that is not the last, withRetry waits
\* retry-after * 1000 ms when the error carries a positive finite retry-after,
\* and 800, 1600, 2400 ms for k = 0, 1, 2 otherwise; after the last failed
\* attempt it throws without waiting.
C40_RetryDelays ==
    [][(view.pc = "call" /\ view'.pc \in {"wait", "thrown"})
         => LET k == view.attempt
                ra == view'.retryAfter
            IN  /\ view'.pc = "thrown" <=> k = Retries
                /\ view'.pc = "thrown" => view'.waits = view.waits
                /\ view'.pc = "wait"
                     => /\ Len(view'.waits) = k + 1
                        /\ SubSeq(view'.waits, 1, k) = view.waits
                        /\ view'.waits[k + 1] =
                             IF ra.finite /\ ra.n > 0
                             THEN ra.n * 1000
                             ELSE <<800, 1600, 2400>>[k + 1]]_vars

C40_Witness ==
    /\ view.pc = "thrown"
    /\ view.waits = <<800, 2000, 2400>>

\* C32: in the join handler and in the greeting trigger the AwaitingName
\* record is written only after the name prompt was posted: starting the
\* prompt changes no record, a posted prompt sets the user's record to
\* AwaitingName, and a prompt that fails (no direct channel, or the post
\* throws) leaves every record as it was.
C32_RecordAfterPrompt ==
    [][\A h \in Handlers :
          LET t == handlers[h]
              n == handlers'[h]
              u == n.event.user
          IN  /\ (Free(h) /\ InFlight(n) /\ n.line \in {402, 641}) => dmState' = dmState
              /\ (InFlight(t) /\ t.line \in {402, 641} /\ n # t)
                   => IF Returned(n) /\ ~DmFailed(n)
                      THEN /\ PostedTexts(n) \in {{WelcomeText}, {HelloText}}
                           /\ dmState' = [dmState EXCEPT ![u] = AskName]
                      ELSE dmState' = dmState]_vars

C32_Witness ==
    \E h \in Handlers :
        LET t == handlers[h]
        IN  /\ Returned(t) /\ t.line = 641 /\ DmFailed(t)
            /\ Len(t.out) = 2
            /\ dmState[t.event.user] = NoState

\* C33: every stored record has step askName or askBatch; a record in
\* askName holds no name, and a record in askBatch holds a name that is not
\* empty and neither starts nor ends with whitespace.
C33_RecordShape ==
    \A u \in Users :
        LET r == dmState[u]
        IN  \/ r = NoState
            \/ r.step = "askName" /\ r.name = <<>>
            \/ /\ r.step = "askBatch"
               /\ r.name # <<>>
               /\ r.name[1] # " "
               /\ r.name[Len(r.name)] # " "

C33_Witness ==
    \E u \in Users :
        /\ dmState[u].step = "askBatch"
        /\ dmState[u].name = <<"h">>
        /\ \E h \in Handlers : /\ handlers[h].event.user = u
                               /\ handlers[h].event.text = <<" ", "h", " ">>

\* C34: a message event that is not from an IM channel never advances a
\* conversation: its handler returns at once without any call, and the
\* record of a user in askName or askBatch stays as it was.
C34_NonImIgnored ==
    [][\A h \in Handlers :
          LET n == handlers'[h]
          IN  (n # handlers[h] /\ n.event.type = "message" /\ n.event.channel_type # "im")
                => /\ Returned(n) /\ n.out = <<>>
                   /\ n.targetChannelId = Unset
                   /\ dmState' = dmState]_vars

C34_Witness ==
    \E h \in Handlers :
        LET t == handlers[h]
        IN  /\ Returned(t) /\ t.out = <<>>
            /\ t.event.type = "message" /\ t.event.channel_type = "channel"
            /\ t.event.text = <<"2">>
            /\ dmState[t.event.user].step = "askBatch"
            /\ env.BATCH2_CHANNEL_ID # Unset

\* C35: every request to the events endpoint gets exactly one response: one
\* is written by the time the route handler acknowledges or returns, and
\* none is added when the dispatch or a listener throws afterwards.
C35_OneResponse ==
    /\ http.phase = "idle" => http.writes = 0
    /\ http.phase \in {"acked", "done"} => http.writes = 1 /\ http.response # NoResponse

C35_Witness ==
    /\ http.phase = "done"
    /\ IsEventCallback(http.request)
    /\ Listens(http.request.raw.event)
    /\ \A h \in Handlers : handlers[h] = Idle
    /\ http.writes = 1

\* ---------------------------------------------------------------------
\* The OAuth routes of src/index.js on their own, with two state tokens.
\* ---------------------------------------------------------------------

\* values of Math.random().toString(36).slice(2)
StateTokens == {"s1", "s2", "s3"}

OauthNext ==
    \/ \E token \in StateTokens : Install(token)
    \/ \E state \in StateTokens \cup {"", "forged"}, code \in {"code", ""} :
          OauthRedirect(state, code)
    \/ \E ok \in BOOLEAN : AccessReturns(ok)

OauthSpec == ServiceInit /\ [][OauthNext]_vars

\* C36: the redirect handler starts a token exchange only for a state that is
\* in oauthStates when it is presented, and removes it; a redirect with a
\* missing, unknown or already used state is answered 400 without exchange and
\* changes nothing else, and a redirect with a stored state and no code is
\* answered 400 without exchange and removes the state.
C36_StateSingleUse ==
    [][/\ (oauth.await = "idle" /\ oauth'.await = "oauth.v2.access")
            => /\ oauth'.presented \in oauth.states
               /\ oauth'.states = oauth.states \ {oauth'.presented}
       /\ (oauth.await = "idle" /\ oauth' # oauth /\ oauth'.status = 400)
            => /\ oauth'.await = "idle"
               /\ oauth'.exchanges = oauth.exchanges
               /\ oauth'.states = oauth.states \ {oauth'.presented}
       /\ (oauth.await = "idle" /\ oauth'.presented # oauth.presented
             /\ oauth'.presented \notin oauth.states)
            => oauth'.status = 400 /\ oauth'.states = oauth.states]_vars

C36_Witness ==
    /\ oauth.exchanges = 1
    /\ oauth.await = "idle"
    /\ oauth.status = 400
    /\ oauth.presented = "s1"
    /\ oauth.states = {"s2"}

\* ---------------------------------------------------------------------
\* rateLimiter (src/unnamed/part_002) with its clock: in WindowSpec `http`
\* holds the rateLimit map, Date.now() and the outcome of the last request.
\* ---------------------------------------------------------------------

MaxTicks == 3

\* RATE_LIMIT_WINDOW = 60 * 1000
RATE_LIMIT_WINDOW == 60000

\* req.ip
Ips == {"ip1", "ip2"}

\* rateLimit.get(ip) === undefined
NoEntry == [count |-> 0, timestamp |-> -1]

\* now - timestamp > RATE_LIMIT_WINDOW, for an entry of the map
Expired(entry, now) ==
    entry # NoEntry /\ now - entry.timestamp > RATE_LIMIT_WINDOW

\* the clean-up loop: every expired entry is deleted
CleanUp(rateLimit, now) ==
    [i \in Ips |-> IF Expired(rateLimit[i], now) THEN NoEntry ELSE rateLimit[i]]

\* rateLimiter(req, res, next) for a request of address ip
LimiterRequest(ip) ==
    LET cleaned == CleanUp(http.rateLimit, http.now)
        clientRate == IF cleaned[ip] = NoEntry
                      THEN [count |-> 0, timestamp |-> http.now]
                      ELSE cleaned[ip]
        limited == RateLimiter(http.rateLimit[ip].count, cleaned[ip] = NoEntry)
    IN  /\ http' = [http EXCEPT
                      !.ip = ip,
                      !.status = IF limited.passes THEN "next" ELSE "429",
                      !.rateLimit =
                          IF limited.passes
                          THEN [cleaned EXCEPT ![ip] =
                                  [clientRate EXCEPT !.count = limited.count]]
                          ELSE cleaned]
        /\ UNCHANGED <<dmState, handlers, env, view, oauth>>

\* half a window passes
Tick ==
    /\ http.now < MaxTicks * (RATE_LIMIT_WINDOW \div 2)
    /\ http' = [http EXCEPT !.now = http.now + RATE_LIMIT_WINDOW \div 2]
    /\ UNCHANGED <<dmState, handlers, env, view, oauth>>

WindowInit ==
    /\ dmState = [u \in Users |-> NoState]
    /\ handlers = [h \in Handlers |-> Idle]
    /\ env = [ANNOUNCE_CHANNEL_ID |-> AnnounceId,
              BATCH2_CHANNEL_ID |-> Batch2Id,
              BATCH3_CHANNEL_ID |-> Batch3Id]
    /\ view = NoSubmission
    /\ http = [rateLimit |-> [i \in Ips |-> NoEntry], now |-> 0, ip |-> "none",
               status |-> "none"]
    /\ oauth = NoInstall

WindowNext ==
    \/ \E ip \in Ips : LimiterRequest(ip)
    \/ Tick

WindowSpec == WindowInit /\ [][WindowNext]_vars

\* the entry of the address is in its window: at most 60 s since its timestamp
InWindow(entry, now) ==
    entry # NoEntry /\ now - entry.timestamp <= RATE_LIMIT_WINDOW

\* C37: per address, the window starts at the first admitted request and
\* lasts 60 s; inside it at most RATE_LIMIT_MAX (100) requests are admitted,
\* every further one is answered 429 without reaching the route handler and
\* without increasing the count, and after the window the address is admitted
\* again with a new window; the other addresses' windows are not touched.
C37_RateWindow ==
    [][(http'.now = http.now /\ http' # http)
         => LET ip == http'.ip
                old == http.rateLimit[ip]
                new == http'.rateLimit[ip]
            IN  /\ IF InWindow(old, http.now)
                   THEN IF old.count < 100
                        THEN /\ http'.status = "next"
                             /\ new = [old EXCEPT !.count = old.count + 1]
                        ELSE /\ http'.status = "429"
                             /\ new = old
                   ELSE /\ http'.status = "next"
                        /\ new = [count |-> 1, timestamp |-> http.now]
                /\ new.count <= 100
                /\ \A i \in Ips \ {ip} :
                      InWindow(http.rateLimit[i], http.now)
                        => http'.rateLimit[i] = http.rateLimit[i]]_vars

C37_Witness ==
    /\ http.status = "429"
    /\ http.ip = "ip1"
    /\ http.rateLimit["ip1"] = [count |-> 100, timestamp |-> 0]
    /\ http.now = 60000
    /\ InWindow(http.rateLimit["ip2"], http.now)

\* ---------------------------------------------------------------------
\* The askBatch branch of the multi-channel variant (src/unnamed/part_002):
\* BATCHn_CHANNEL_IDS holds a comma-separated list; the user is invited to
\* every channel of the list and gets one summary.  The catch and finally
\* that follow the branch have no try, so what they do to the record is left
\* out; the record of the user stays in askBatch.
\* ---------------------------------------------------------------------

MaxChannels == 2

\* the pieces of BATCHn_CHANNEL_IDS between its commas
Segments == {<<"A">>, <<" ", "B", " ">>, <<" ">>}

\* the values of BATCHn_CHANNEL_IDS: unset, or up to MaxChannels pieces
ChannelIds == UNION {[1 .. n -> Segments] : n \in 0 .. MaxChannels}

\* process.env.BATCHn_CHANNEL_IDS.split(',').map(id => id.trim())
SplitTrim(ids) == [i \in 1 .. Len(ids) |-> Trim(ids[i])]

\* targetChannels for the answer
TargetChannels(text, e) ==
    LET normalized == Normalize(text)
    IN  IF normalized = <<"2">> THEN SplitTrim(e.BATCH2_CHANNEL_IDS)
        ELSE IF normalized = <<"3">> THEN SplitTrim(e.BATCH3_CHANNEL_IDS)
        ELSE <<>>

\* the message branch for a user in askBatch, up to its first await
MultiMessage(h, event) ==
    LET t == Invocation(event)
    IN  /\ Free(h)
        /\ event.type = "message" /\ ~GreetingFiltered(event)
        /\ dmState[event.user].step = "askBatch"
        /\ handlers' = [handlers EXCEPT ![h] =
              IF Len(TargetChannels(Trim(event.text), env)) = 0
              THEN Dm(t, 703)
              ELSE [t EXCEPT !.line = 718, !.await = "conversations.invite"]]
        /\ UNCHANGED <<dmState, env, view, http, oauth>>

\* an invite loop that gives up at the first failed invite
MultiInviteReturnsStops(h, res) ==
    LET t == handlers[h]
        targetChannels == TargetChannels(Trim(t.event.text), env)
        i == Len(SelectSeq(t.out, LAMBDA c : c.api = "conversations.invite")) + 1
        invited == [t EXCEPT !.out = Append(t.out,
                      Call("conversations.invite", targetChannels[i], t.event.user,
                           NoText, res))]
    IN  /\ t.await = "conversations.invite" /\ t.line = 718
        /\ handlers' = [handlers EXCEPT ![h] =
              IF i < Len(targetChannels) /\ res = "ok" THEN invited ELSE Dm(invited, 735)]
        /\ UNCHANGED <<dmState, env, view, http, oauth>>

\* the invite of the loop for channel i returns or throws: its line is
\* pushed to results, and the loop goes on to channel i + 1 or to the summary
MultiInviteReturns(h, res) ==
    LET t == handlers[h]
        targetChannels == TargetChannels(Trim(t.event.text), env)
        i == Len(SelectSeq(t.out, LAMBDA c : c.api = "conversations.invite")) + 1
        invited == [t EXCEPT !.out = Append(t.out,
                      Call("conversations.invite", targetChannels[i], t.event.user,
                           NoText, res))]
    IN  /\ t.await = "conversations.invite" /\ t.line = 718
        /\ handlers' = [handlers EXCEPT ![h] =
              IF i < Len(targetChannels) THEN invited ELSE Dm(invited, 735)]
        /\ UNCHANGED <<dmState, env, view, http, oauth>>

\* a user who has answered the name prompt
MultiInit ==
    /\ dmState = [u \in Users |-> IF u = "U1" THEN AskBatch(<<"h">>) ELSE NoState]
    /\ handlers = [h \in Handlers |-> Idle]
    /\ env \in [BATCH2_CHANNEL_IDS : ChannelIds, BATCH3_CHANNEL_IDS : {<<>>, <<<<"B">>>>}]
    /\ view = NoSubmission
    /\ http = NoTraffic
    /\ oauth = NoInstall

\* the direct messages the user answers the batch prompt with
MultiEvents == {MessageEvent("im", "none", "U1", x) : x \in {<<"2">>, <<"3">>, <<"h">>}}

MultiNext ==
    \/ \E event \in MultiEvents : MultiMessage("h1", event)
    \/ \E res \in {"ok", "already_in_channel", "not_in_channel"} :
          MultiInviteReturns("h1", res)
    \/ \E res \in {"ok", "no_channel"} : OpenReturns("h1", res)
    \/ \E res \in PostResults : PostReturns("h1", res)

MultiSpec == MultiInit /\ [][MultiNext]_vars

SubmitMap(selected, e) ==
    CASE selected = "batch2" -> e.BATCH2_CHANNEL_ID
      [] selected = "batch3" -> e.BATCH3_CHANNEL_ID
      [] OTHER -> Unset

YoureInText == Msg("You're in! I've added you to your batch channel", <<>>)

\* the API of the call the view listener awaits at `line`
SubmitApi(line) ==
    CASE line = 134 -> "conversations.invite"
      [] line = 140 -> "conversations.open"
      [] OTHER -> "chat.postMessage"

\* the call the view listener awaits, with its result
SubmitCall(v, res) ==
    Call(SubmitApi(v.line),
         CASE v.line = 134 -> v.targetChannel
           [] v.line = 142 -> ImOf(v.user)
           [] OTHER -> Unset,
         IF v.line = 142 THEN Unset ELSE v.user,
         IF v.line = 142 THEN YoureInText ELSE NoText,
         res)

\* the listener from ack() to its first await: it returns when the selected
\* value maps to no channel, and awaits the invite otherwise
ViewSubmission(user, selected) ==
    LET v == [NoSubmission EXCEPT !.user = user, !.selected = selected,
                                  !.targetChannel = SubmitMap(selected, env)]
    IN  /\ view.await \in {"idle", "returned"}
        /\ view' = IF v.targetChannel = Unset
                   THEN [v EXCEPT !.await = "returned"]
                   ELSE [v EXCEPT !.line = 134, !.await = "call"]
        /\ UNCHANGED <<dmState, handlers, env, http, oauth>>

\* the awaited call returns or throws. The catch of the invite only warns,
\* so the listener goes on to conversations.open either way; open and
\* postMessage throw into the outer catch; a channel without id skips the DM
SubmissionCallReturns(res) ==
    LET v == [view EXCEPT !.out = Append(view.out, SubmitCall(view, res))]
    IN  /\ view.await = "call"
        /\ res = "no_channel" => view.line = 140
        /\ view' = CASE view.line = 134 -> [v EXCEPT !.line = 140]
                     [] view.line = 140 /\ res = "ok" -> [v EXCEPT !.line = 142]
                     [] OTHER -> [v EXCEPT !.await = "returned"]
        /\ UNCHANGED <<dmState, handlers, env, http, oauth>>

SubmissionNext ==
    \/ \E u \in Users, selected \in Selections : ViewSubmission(u, selected)
    \/ \E res \in {"ok", "no_channel"} \cup ModalErrors : SubmissionCallReturns(res)

SubmissionSpec == ModalInit /\ [][SubmissionNext]_vars

\* C39: the confirmation direct message of a submission is sent only if the
\* invite of that submission succeeded, and a submission whose selected value
\* maps to no configured channel makes no invite and sends no message.
C39_ConfirmAfterInvite ==
    /\ \A i \in DOMAIN view.out :
          view.out[i].api = "chat.postMessage" /\ view.out[i].result = "ok"
            => \E j \in 1 .. i - 1 :
                  /\ view.out[j].api = "conversations.invite"
                  /\ view.out[j].result = "ok"
    /\ view.await # "idle" /\ view.targetChannel = Unset => view.out = <<>>

====
